---- MODULE Spec2Model ----
(***************************************************************************)
(* Model of the streaming session (class GeminiLive) and of the session    *)
(* multiplexer (class GeminiAgentManager) of src/js/gemini-live.js,        *)
(* together with the browser WebSocket objects they drive.                 *)
(*                                                                         *)
(* Sessions and sockets are numbered in creation order: live[s] is the     *)
(* s-th GeminiLive object ever constructed, socks[k] the k-th WebSocket.   *)
(* A socket keeps the closures connect() installed on it (owner session,   *)
(* agentConfig, resolve/reject), so events of a socket the session no      *)
(* longer references still run the handlers on the owner session.          *)
(***************************************************************************)
EXTENDS Integers, Sequences, FiniteSets, TLC

\* ------------------------------------------------------------------ bounds
MaxSessions == 2
MaxSockets == 2
MaxCalls == 2
MaxParts == 2
MaxContexts == 2
MaxProcessors == 2
MaxBuffers == 2
MaxSamples == 2
MaxBands == 4
MaxPlays == 2
MaxGenerations == 2

\* --------------------------------------------------------------- constants
Agents == {"drums", "bass"}
AgentIds == Agents \cup {"kazoo"}
CbOf(a) == IF a = "drums" THEN "cbDrums" ELSE "cbBass"

NullHandler == [set |-> FALSE, agentId |-> "none", onResponse |-> "null"]

\* what a call returned: value is "true", "false", "undefined", "awaits"
\* (the result is the outcome of the connect() promise of socket sock), the
\* name of the exception it raised, or "none"
Ret(op, value, sock) == [op |-> op, value |-> value, sock |-> sock]
NoRet == Ret("none", "none", 0)

Parts == {[text |-> "note"], [text |-> ""], [inlineData |-> "blob"]}
PartSeqs == UNION {[1..n -> Parts] : n \in 0..MaxParts}
\* handleMessage only logs turnComplete, so it varies on the turns that carry
\* no part and is set on the others
InboundMessages ==
    {[kind |-> "malformed"], [kind |-> "setupComplete"]}
    \cup {[kind |-> "serverContent", hasTurn |-> FALSE, turnComplete |-> tc] :
             tc \in BOOLEAN}
    \cup {[kind |-> "serverContent", hasTurn |-> TRUE, turnComplete |-> tc,
           parts |-> <<>>] : tc \in BOOLEAN}
    \cup {[kind |-> "serverContent", hasTurn |-> TRUE, turnComplete |-> TRUE,
           parts |-> ps] : ps \in PartSeqs \ {<<>>}}

NumParts(m) == IF m.kind = "serverContent" /\ m.hasTurn THEN Len(m.parts)
               ELSE 0

\* mgr, live, socks: the manager, the sessions and the sockets.  delivered,
\* errs: the onResponse and onError invocations.  nCalls numbers the frames
\* and texts handed to the send operations.  dropped: the (session, frame)
\* pairs sendAudio was given while isConnected was false.  closed: the
\* sessions whose socket was released by disconnect() or has closed.
\* failed: the sessions whose socket reported an error since their last
\* connect().
\* ret: what the call made by the last step returned (NoRet after a step
\* that is an event or a call returning nothing).
\* garbled: the socket on which the last message dispatched was an
\* unparseable payload, 0 when the last step was something else.
VARIABLES mgr, live, socks, delivered, errs, nCalls, lastIn, dropped, closed,
          failed, ret, garbled
\* cap: the AudioCapture object.  ctxs, procs: the AudioContext and
\* ScriptProcessorNode objects it has created.  frames: the onAudioData
\* invocations.
VARIABLES cap, ctxs, procs, frames
\* dsp: an audio frame with its rates and what the resampler, the quantizer
\* and the encoder made of it.  feat: an analyser spectrum and the features
\* computed from it.
VARIABLES dsp, feat
\* app: the App object (the listening flag and the toggleListening
\* invocations suspended at an await).  engine: the StrudelEngine of ui.js
\* with the callbacks App.setupCallbacks installs.  band: the agents.
\* page: the globals of the window and the detection loop of
\* StrudelEngine.init().
VARIABLES app, engine, band, page
captureVars == <<cap, ctxs, procs, frames>>
signalVars == <<dsp, feat>>
appVars == <<app, engine, band, page>>
sessionVars == <<mgr, live, socks, delivered, errs, nCalls, lastIn, dropped,
                 closed, failed, garbled>>
vars == <<mgr, live, socks, delivered, errs, nCalls, lastIn, dropped, closed,
          failed, ret, garbled, cap, ctxs, procs, frames, dsp, feat, app,
          engine, band, page>>

\* the part of the state the session and socket code works on
World == [live |-> live, socks |-> socks, delivered |-> delivered,
          errs |-> errs]

\* ------------------------------------------------------------- GeminiLive
GeminiLive(apiKey) ==
    [apiKey |-> apiKey, ws |-> 0, isConnected |-> FALSE,
     onMessage |-> NullHandler, onError |-> FALSE, currentAgent |-> "none",
     messageQueue |-> <<>>]

WebSocket(s, agentConfig) ==
    [owner |-> s, readyState |-> "CONNECTING", agentConfig |-> agentConfig,
     promise |-> "pending", opened |-> FALSE, wire |-> <<>>, closeCalls |-> 0]

SetupMsg(p) == [kind |-> "setup", id |-> 0, tag |-> p]
AudioMsg(id) == [kind |-> "realtimeInput", id |-> id, tag |-> "pcm"]
TextMsg(id, prefix) == [kind |-> "clientContent", id |-> id, tag |-> prefix]

connected(W, s) ==
    /\ W.live[s].isConnected
    /\ W.live[s].ws # 0
    /\ W.socks[W.live[s].ws].readyState = "OPEN"

\* send() without the readyState test
send_noReadyCheck(W, s, data) ==
    LET k == W.live[s].ws IN
    IF k # 0
    THEN [W EXCEPT !.socks[k].wire = Append(@, data)]
    ELSE [W EXCEPT !.live[s].messageQueue = Append(@, data)]

send(W, s, data) ==
    LET k == W.live[s].ws IN
    IF k # 0 /\ W.socks[k].readyState = "OPEN"
    THEN [W EXCEPT !.socks[k].wire = Append(@, data)]
    ELSE [W EXCEPT !.live[s].messageQueue = Append(@, data)]

\* a handshake that ignores the agent configuration
sendSetup_default(W, s, agentConfig) == send(W, s, SetupMsg("default"))

sendSetup(W, s, agentConfig) ==
    send(W, s, SetupMsg(IF agentConfig = "null" THEN "default"
                        ELSE agentConfig))

\* sendAudio() without the isConnected test
sendAudio_noGuard(W, s, id) == send(W, s, AudioMsg(id))

sendAudio(W, s, id) ==
    IF ~W.live[s].isConnected THEN W ELSE send(W, s, AudioMsg(id))

sendText(W, s, id, prefix) ==
    IF ~W.live[s].isConnected THEN W ELSE send(W, s, TextMsg(id, prefix))

\* connect() without the API key test
connect_noKeyCheck(W, s, agentConfig) ==
    IF W.live[s].isConnected THEN W
    ELSE [W EXCEPT !.socks = Append(@, WebSocket(s, agentConfig)),
                   !.live[s].ws = Len(W.socks) + 1]

\* connect(): the synchronous part, up to the creation of the socket
WouldOpen(W, s) == ~W.live[s].isConnected /\ W.live[s].apiKey

connect(W, s, agentConfig) ==
    IF W.live[s].isConnected THEN W
    ELSE IF ~W.live[s].apiKey THEN W
    ELSE [W EXCEPT !.socks = Append(@, WebSocket(s, agentConfig)),
                   !.live[s].ws = Len(W.socks) + 1]

\* what connect() returns: true, false, or the promise of the new socket
connectResult(W, s) ==
    IF W.live[s].isConnected THEN Ret("connect", "true", 0)
    ELSE IF ~W.live[s].apiKey THEN Ret("connect", "false", 0)
    ELSE Ret("connect", "awaits", Len(W.socks) + 1)

\* WebSocket.close(): no effect on a socket already closing or closed
wsClose(K, k) ==
    IF K[k].readyState \in {"CLOSING", "CLOSED"}
    THEN [K EXCEPT ![k].closeCalls = @ + 1]
    ELSE [K EXCEPT ![k].readyState = "CLOSING", ![k].closeCalls = @ + 1]

\* disconnect() that keeps the socket handle
disconnect_keepHandle(W, s) ==
    LET W1 == IF W.live[s].ws # 0
              THEN [W EXCEPT !.socks = wsClose(@, W.live[s].ws)]
              ELSE W
    IN [W1 EXCEPT !.live[s].isConnected = FALSE]

disconnect(W, s) ==
    LET W1 == IF W.live[s].ws # 0
              THEN [W EXCEPT !.socks = wsClose(@, W.live[s].ws),
                             !.live[s].ws = 0]
              ELSE W
    IN [W1 EXCEPT !.live[s].isConnected = FALSE]

\* the manager's onMessage wrapper followed by the caller's onResponse
Truthy(part) == "text" \in DOMAIN part /\ part.text # ""

RECURSIVE deliverParts(_, _, _, _, _)
deliverParts(W, s, parts, i, throwAt) ==
    IF i > Len(parts) THEN W
    ELSE IF Truthy(parts[i]) /\ W.live[s].onMessage.set
              /\ W.live[s].onMessage.onResponse # "null"
    THEN LET h == W.live[s].onMessage
             W1 == [W EXCEPT !.delivered = Append(@,
                       [sess |-> s, cb |-> h.onResponse, agent |-> h.agentId,
                        current |-> W.live[s].currentAgent, part |-> i,
                        content |-> parts[i].text])]
         IN IF throwAt = i THEN W1
            ELSE deliverParts(W1, s, parts, i + 1, throwAt)
    ELSE deliverParts(W, s, parts, i + 1, throwAt)

\* a dispatch that stops after the first part of the turn
handleMessage_firstOnly(W, s, m, throwAt) ==
    IF m.kind = "serverContent" /\ m.hasTurn
    THEN deliverParts(W, s, IF m.parts = <<>> THEN <<>> ELSE <<m.parts[1]>>,
                      1, throwAt)
    ELSE W

handleMessage(W, s, m, throwAt) ==
    IF m.kind = "serverContent" /\ m.hasTurn
    THEN deliverParts(W, s, m.parts, 1, throwAt)
    ELSE W

\* the exception raised inside the try block of handleMessage: by JSON.parse
\* on a payload that is not JSON, or by the callback
thrownInTry(m, throwAt) ==
    IF m.kind = "malformed" THEN "SyntaxError"
    ELSE IF throwAt # 0 THEN "callback" ELSE "none"

\* the catch clause of handleMessage has no filter
Caught == {"SyntaxError", "callback"}

\* a dispatch whose try block has no catch clause
handleMessageRaises_noCatch(m, throwAt) == thrownInTry(m, throwAt)

\* the exception that leaves handleMessage
handleMessageRaises(m, throwAt) ==
    IF thrownInTry(m, throwAt) \in Caught THEN "none"
    ELSE thrownInTry(m, throwAt)

\* ------------------------------------------------- socket event handlers
\* an open handler that transmits the queued messages and empties the queue
onopen_flush(W, k) ==
    LET s == W.socks[k].owner
        W1 == [W EXCEPT !.live[s].isConnected = TRUE]
        W2 == sendSetup(W1, s, W.socks[k].agentConfig)
    IN [W2 EXCEPT !.socks[k].wire = @ \o W2.live[s].messageQueue,
                  !.live[s].messageQueue = <<>>,
                  !.socks[k].promise =
                     IF @ = "pending" THEN "resolved" ELSE @]

onopen(W, k) ==
    LET s == W.socks[k].owner
        W1 == [W EXCEPT !.live[s].isConnected = TRUE]
        W2 == sendSetup(W1, s, W.socks[k].agentConfig)
    IN [W2 EXCEPT !.socks[k].promise =
                     IF @ = "pending" THEN "resolved" ELSE @]

onerror(W, k) ==
    LET s == W.socks[k].owner
        W1 == IF W.live[s].onError
              THEN [W EXCEPT !.errs = Append(@, [sess |-> s, sock |-> k])]
              ELSE W
    IN [W1 EXCEPT !.socks[k].promise =
                     IF @ = "pending" THEN "rejected" ELSE @]

\* a close handler that reconnects by itself
onclose_reconnect(W, k) ==
    connect([W EXCEPT !.live[W.socks[k].owner].isConnected = FALSE],
            W.socks[k].owner, W.socks[k].agentConfig)

\* a close handler that leaves isConnected alone
onclose_keepConnected(W, k) == W

onclose(W, k) ==
    [W EXCEPT !.live[W.socks[k].owner].isConnected = FALSE]

\* ----------------------------------------------------- GeminiAgentManager
GeminiAgentManager(apiKey, shared) ==
    [apiKey |-> apiKey, sessions |-> [a \in Agents |-> 0],
     sharedSession |-> 0, useSharedSession |-> shared]

\* startListening tags the session and installs the onMessage wrapper
\* a registration that keeps a wrapper already installed
register_keepFirst(W, s, a, cb) ==
    IF W.live[s].onMessage.set
    THEN [W EXCEPT !.live[s].currentAgent = a]
    ELSE [W EXCEPT !.live[s].currentAgent = a,
                   !.live[s].onMessage =
                       [set |-> TRUE, agentId |-> a, onResponse |-> cb]]

register(W, s, a, cb) ==
    [W EXCEPT !.live[s].currentAgent = a,
              !.live[s].onMessage =
                  [set |-> TRUE, agentId |-> a, onResponse |-> cb]]

\* a per-listener mode that works on the first session created
ListenSession_reuseFirst(M, W, a) ==
    IF M.useSharedSession THEN M.sharedSession
    ELSE IF Len(W.live) >= 1 THEN 1 ELSE Len(W.live) + 1

\* the session startListening works on; 0 when it creates none
ListenSession(M, W, a) ==
    IF M.useSharedSession THEN M.sharedSession ELSE Len(W.live) + 1

init(M, W) ==
    IF ~M.apiKey THEN [M |-> M, W |-> W, ret |-> Ret("init", "false", 0)]
    ELSE IF M.useSharedSession
    THEN [M |-> [M EXCEPT !.sharedSession = Len(W.live) + 1],
          W |-> [W EXCEPT !.live = Append(@, GeminiLive(M.apiKey))],
          ret |-> Ret("init", "true", 0)]
    ELSE [M |-> M, W |-> W, ret |-> Ret("init", "true", 0)]

\* startListening() that tags the shared session before the agent lookup
startListening_lookupLate(M, W, a, cb) ==
    IF M.apiKey /\ a \notin Agents /\ M.useSharedSession
       /\ M.sharedSession # 0
    THEN [M |-> M, W |-> register(W, M.sharedSession, a, cb),
          ret |-> Ret("startListening", "false", 0)]
    ELSE [M |-> M, W |-> W, ret |-> Ret("startListening", "false", 0)]

\* startListening() up to its await: a session that is null makes the
\* assignment of currentAgent raise a TypeError, outside the try block; the
\* value connect() returns without a promise is ignored and true is returned
startListening(M, W, a, cb) ==
    IF ~M.apiKey
    THEN [M |-> M, W |-> W, ret |-> Ret("startListening", "false", 0)]
    ELSE IF a \notin Agents
    THEN [M |-> M, W |-> W, ret |-> Ret("startListening", "false", 0)]
    ELSE LET s == ListenSession(M, W, a) IN
         IF s = 0
         THEN [M |-> M, W |-> W,
               ret |-> Ret("startListening", "TypeError", 0)]
         ELSE LET W0 == IF M.useSharedSession THEN W
                        ELSE [W EXCEPT
                                !.live = Append(@, GeminiLive(M.apiKey))]
                  W1 == register(W0, s, a, cb)
                  r == connectResult(W1, s)
              IN [M |-> IF M.useSharedSession THEN M
                        ELSE [M EXCEPT !.sessions[a] = s],
                  W |-> connect(W1, s, a),
                  ret |-> IF r.value = "awaits"
                          THEN Ret("startListening", "awaits", r.sock)
                          ELSE Ret("startListening", "true", 0)]

RECURSIVE audioToSessions(_, _, _, _)
audioToSessions(W, M, todo, id) ==
    IF todo = {} THEN W
    ELSE LET a == CHOOSE x \in todo : TRUE
             s == M.sessions[a]
             W1 == IF s # 0 /\ connected(W, s) THEN sendAudio(W, s, id)
                   ELSE W
         IN audioToSessions(W1, M, todo \ {a}, id)

\* sendAudioToAll() that only knows the shared session
sendAudioToAll_sharedOnly(W, M, id) ==
    IF M.useSharedSession /\ M.sharedSession # 0
          /\ connected(W, M.sharedSession)
    THEN sendAudio(W, M.sharedSession, id)
    ELSE W

sendAudioToAll(W, M, id) ==
    IF M.useSharedSession /\ M.sharedSession # 0
          /\ connected(W, M.sharedSession)
    THEN sendAudio(W, M.sharedSession, id)
    ELSE audioToSessions(W, M, Agents, id)

\* sendToAgent() that sends the text as it is in shared mode too
sendToAgent_noPrefix(W, M, a, id) ==
    IF M.useSharedSession /\ M.sharedSession # 0
          /\ connected(W, M.sharedSession)
    THEN sendText(W, M.sharedSession, id, "")
    ELSE LET s == IF a \in Agents THEN M.sessions[a] ELSE 0 IN
         IF s # 0 /\ connected(W, s) THEN sendText(W, s, id, "") ELSE W

\* sessions.get() of an id that has no entry is undefined
sendToAgent(W, M, a, id) ==
    IF M.useSharedSession /\ M.sharedSession # 0
          /\ connected(W, M.sharedSession)
    THEN sendText(W, M.sharedSession, id, a)
    ELSE LET s == IF a \in Agents THEN M.sessions[a] ELSE 0 IN
         IF s # 0 /\ connected(W, s) THEN sendText(W, s, id, "") ELSE W

RECURSIVE disconnectAll(_, _, _)
disconnectAll(W, M, todo) ==
    IF todo = {} THEN W
    ELSE LET a == CHOOSE x \in todo : TRUE
             W1 == IF M.sessions[a] # 0 THEN disconnect(W, M.sessions[a])
                   ELSE W
         IN disconnectAll(W1, M, todo \ {a})

stopAll(W, M) ==
    LET W1 == IF M.sharedSession # 0 THEN disconnect(W, M.sharedSession)
              ELSE W
    IN disconnectAll(W1, M, Agents)

\* ------------------------------------------------------------ AudioCapture
\* audioContext, mediaStreamDestination and scriptProcessor hold the number
\* of the object they reference, 0 for null
AudioCapture ==
    [audioContext |-> 0, analyserNode |-> 0, mediaStreamDestination |-> 0,
     isCapturing |-> FALSE, onAudioData |-> "null", scriptProcessor |-> 0]

\* a ScriptProcessorNode: the context that created it, whether a source feeds
\* it, whether it is connected to the destination, the buffers it delivered
ScriptProcessor(ctx) ==
    [ctx |-> ctx, source |-> FALSE, out |-> FALSE, fired |-> 0]

FrameCallbacks == {"onFrameA", "onFrameB"}
InitFailures == {"none", "context", "analyser", "destination"}

\* init(): failAt names the constructor call that throws
capInit(R, failAt) ==
    IF failAt = "context" THEN [R |-> R, ret |-> Ret("capInit", "false", 0)]
    ELSE LET c == Len(R.ctxs) + 1
             R1 == [R EXCEPT !.ctxs = Append(@, "running"),
                             !.cap.audioContext = c]
         IN IF failAt = "analyser"
            THEN [R |-> R1, ret |-> Ret("capInit", "false", 0)]
            ELSE IF failAt = "destination"
            THEN [R |-> [R1 EXCEPT !.cap.analyserNode = c],
                  ret |-> Ret("capInit", "false", 0)]
            ELSE [R |-> [R1 EXCEPT !.cap.analyserNode = c,
                                   !.cap.mediaStreamDestination = c],
                  ret |-> Ret("capInit", "true", 0)]

\* startCapture() without the isCapturing test
startCapture_noGuard(R, cb) ==
    LET R1 == [R EXCEPT !.cap.onAudioData = cb, !.cap.isCapturing = TRUE]
        p == Len(R.procs) + 1
        R2 == [R1 EXCEPT
                 !.procs = Append(@, ScriptProcessor(R.cap.audioContext)),
                 !.cap.scriptProcessor = p]
    IN IF R.cap.audioContext = 0
       THEN [R |-> R1, ret |-> Ret("startCapture", "TypeError", 0)]
       ELSE IF R.cap.mediaStreamDestination = 0
       THEN [R |-> R2, ret |-> Ret("startCapture", "TypeError", 0)]
       ELSE [R |-> [R2 EXCEPT !.procs[p].source = TRUE,
                              !.procs[p].out = TRUE],
             ret |-> Ret("startCapture", "undefined", 0)]

\* startCapture(): createScriptProcessor on a null audioContext and .stream
\* of a null mediaStreamDestination raise a TypeError; the destination's
\* stream has one audio track
startCapture(R, cb) ==
    IF R.cap.isCapturing
    THEN [R |-> R, ret |-> Ret("startCapture", "undefined", 0)]
    ELSE LET R1 == [R EXCEPT !.cap.onAudioData = cb,
                             !.cap.isCapturing = TRUE]
             p == Len(R.procs) + 1
             R2 == [R1 EXCEPT
                      !.procs = Append(@, ScriptProcessor(R.cap.audioContext)),
                      !.cap.scriptProcessor = p]
         IN IF R.cap.audioContext = 0
            THEN [R |-> R1, ret |-> Ret("startCapture", "TypeError", 0)]
            ELSE IF R.cap.mediaStreamDestination = 0
            THEN [R |-> R2, ret |-> Ret("startCapture", "TypeError", 0)]
            ELSE [R |-> [R2 EXCEPT !.procs[p].source = TRUE,
                                   !.procs[p].out = TRUE],
                  ret |-> Ret("startCapture", "undefined", 0)]

stopCapture(R) ==
    LET R1 == [R EXCEPT !.cap.isCapturing = FALSE]
        p == R.cap.scriptProcessor
    IN IF p # 0
       THEN [R1 EXCEPT !.procs[p].out = FALSE, !.cap.scriptProcessor = 0]
       ELSE R1

destroy(R) ==
    LET R1 == stopCapture(R)
        c == R.cap.audioContext
    IN IF c # 0
       THEN [R1 EXCEPT !.ctxs[c] = "closed", !.cap.audioContext = 0]
       ELSE R1

\* the handler without the isCapturing test
onaudioprocess_noCheck(R, p, throws) ==
    LET R1 == [R EXCEPT !.procs[p].fired = @ + 1] IN
    IF R.cap.onAudioData = "null" THEN [R |-> R1, ret |-> NoRet]
    ELSE [R |-> [R1 EXCEPT !.frames = Append(@,
                    [proc |-> p, buf |-> R.procs[p].fired + 1,
                     cb |-> R.cap.onAudioData])],
          ret |-> IF throws THEN Ret("onaudioprocess", "callback", 0)
                  ELSE NoRet]

\* the handler that dispatches the buffer twice
onaudioprocess_twice(R, p, throws) ==
    LET R1 == [R EXCEPT !.procs[p].fired = @ + 1]
        f == [proc |-> p, buf |-> R.procs[p].fired + 1,
              cb |-> R.cap.onAudioData]
    IN IF ~R.cap.isCapturing THEN [R |-> R1, ret |-> NoRet]
       ELSE [R |-> [R1 EXCEPT !.frames = Append(Append(@, f), f)],
             ret |-> NoRet]

\* the onaudioprocess handler of processor p, given its next buffer; throws
\* tells whether the onAudioData invocation raises.  The invocation is not
\* inside a try block, so what it raises leaves the handler.
onaudioprocess(R, p, throws) ==
    LET R1 == [R EXCEPT !.procs[p].fired = @ + 1] IN
    IF ~R.cap.isCapturing THEN [R |-> R1, ret |-> NoRet]
    ELSE IF R.cap.onAudioData = "null" THEN [R |-> R1, ret |-> NoRet]
    ELSE [R |-> [R1 EXCEPT !.frames = Append(@,
                    [proc |-> p, buf |-> R.procs[p].fired + 1,
                     cb |-> R.cap.onAudioData])],
          ret |-> IF throws THEN Ret("onaudioprocess", "callback", 0)
                  ELSE NoRet]

\* ------------------------------------------------------ binary64 arithmetic
\* Numbers of the resampler are IEEE 754 doubles.  A non-negative double is
\* [m, e] with value m * 2^e, where m is zero or has exactly Precision bits;
\* m is kept as a little-endian sequence of limbs.
Precision == 53
LimbBits == 15
Base == 2^LimbBits
NumLimbs == 5

Limb(a, k) == IF k \in DOMAIN a THEN a[k] ELSE 0

\* the limbs f[1], ..., f[NumLimbs] as a tuple
Limbs(f) == <<f[1], f[2], f[3], f[4], f[5]>>

BigZero == Limbs([k \in 1..NumLimbs |-> 0])

Big(n) ==
    Limbs([k \in 1..NumLimbs |->
        IF k = 1 THEN n % Base
        ELSE IF k = 2 THEN (n \div Base) % Base
        ELSE IF k = 3 THEN n \div (Base * Base)
        ELSE 0])

RECURSIVE CarryAt(_, _, _)
CarryAt(v, k, c) ==
    IF k > NumLimbs THEN v
    ELSE LET s == v[k] + c IN
         CarryAt([v EXCEPT ![k] = s % Base], k + 1, s \div Base)

BigPlus(a, b) == CarryAt(Limbs([k \in 1..NumLimbs |-> a[k] + b[k]]), 1, 0)
BigMinus(a, b) == CarryAt(Limbs([k \in 1..NumLimbs |-> a[k] - b[k]]), 1, 0)
BigTimes(a, n) == CarryAt(Limbs([k \in 1..NumLimbs |-> a[k] * n]), 1, 0)

BigLess(a, b) ==
    \E k \in 1..NumLimbs :
        /\ a[k] < b[k]
        /\ \A j \in (k + 1)..NumLimbs : a[j] = b[j]

ShiftRight(a, n) ==
    LET q == n \div LimbBits
        r == n % LimbBits
    IN Limbs([k \in 1..NumLimbs |->
           (Limb(a, k + q) \div 2^r)
           + (Limb(a, k + q + 1) % 2^r) * 2^(LimbBits - r)])

ShiftLeft(a, n) ==
    LET q == n \div LimbBits
        r == n % LimbBits
    IN Limbs([k \in 1..NumLimbs |->
           (Limb(a, k - q) % 2^(LimbBits - r)) * 2^r
           + (Limb(a, k - q - 1) \div 2^(LimbBits - r))])

IntBits(x) == CHOOSE n \in 0..LimbBits : x < 2^n /\ (n = 0 \/ x >= 2^(n - 1))

BitLen(a) ==
    IF a = BigZero THEN 0
    ELSE LET top == CHOOSE k \in 1..NumLimbs :
                       a[k] # 0 /\ \A j \in (k + 1)..NumLimbs : a[j] = 0
         IN LimbBits * (top - 1) + IntBits(a[top])

BigOdd(a) == a[1] % 2 = 1

ToInt(a) == a[1] + a[2] * Base + a[3] * Base * Base

DoubleZero == [m |-> BigZero, e |-> 0]

\* the double nearest to (M + f) * 2^e, 0 <= f < 1 and f > 0 iff sticky;
\* ties go to the even mantissa
RoundToDouble(M, e, sticky) ==
    LET n == BitLen(M) IN
    IF n = 0 THEN DoubleZero
    ELSE IF n <= Precision
    THEN [m |-> ShiftLeft(M, Precision - n), e |-> e - (Precision - n)]
    ELSE LET d == n - Precision
             q == ShiftRight(M, d)
             guard == BigOdd(ShiftRight(M, d - 1))
             rest == sticky \/ ShiftLeft(ShiftRight(M, d - 1), d - 1) # M
             m1 == IF guard /\ (rest \/ BigOdd(q))
                   THEN BigPlus(q, Big(1)) ELSE q
         IN IF BitLen(m1) > Precision
            THEN [m |-> ShiftRight(m1, 1), e |-> e + d + 1]
            ELSE [m |-> m1, e |-> e + d]

FromInt(n) == RoundToDouble(Big(n), 0, FALSE)

\* n more quotient bits of r / d by long division, r < 2 * d; s is the pair
\* of the remainder r and the quotient bits found so far
RECURSIVE DivBits(_, _, _)
DivBits(s, d, n) ==
    IF n = 0 THEN [q |-> s[2], sticky |-> s[1] # BigZero]
    ELSE IF BigLess(s[1], d)
         THEN DivBits(<<BigPlus(s[1], s[1]), BigPlus(s[2], s[2])>>, d, n - 1)
         ELSE LET r1 == BigMinus(s[1], d) IN
              DivBits(<<BigPlus(r1, r1),
                        BigPlus(BigPlus(s[2], s[2]), Big(1))>>, d, n - 1)

\* x / y, y > 0
Div(x, y) ==
    IF x.m = BigZero THEN DoubleZero
    ELSE LET b == DivBits(<<x.m, BigZero>>, y.m, Precision + 2) IN
         RoundToDouble(b.q, x.e - y.e - (Precision + 1), b.sticky)

\* x * n for an integer 0 <= n < Base
Times(x, n) == RoundToDouble(BigTimes(x.m, n), x.e, FALSE)

\* Math.floor(x), 0 <= x < 2^30
Floor(x) == ToInt(ShiftRight(x.m, -x.e))

\* x - Math.floor(x), which is exact
Frac(x) ==
    LET whole == ShiftLeft(ShiftRight(x.m, -x.e), -x.e) IN
    RoundToDouble(BigMinus(x.m, whole), x.e, FALSE)

\* Math.round(x), 0 <= x < 2^29: a fraction of one half or more goes up
MathRound(x) == (ToInt(ShiftRight(x.m, -x.e - 1)) + 1) \div 2

\* --------------------------------------------------- resampler and encoder
\* A float sample is the exact fraction num / den.
Samples == {[num |-> n, den |-> 2] : n \in -3..3}

\* what reading past the end of a typed array gives
NotANumber == [num |-> 0, den |-> 0]

Read(inputBuffer, k) ==
    IF k + 1 \in DOMAIN inputBuffer THEN inputBuffer[k + 1] ELSE NotANumber

Min(a, b) == IF a < b THEN a ELSE b

\* the resampler without the clamp of the upper index
resample_noClamp(inputBuffer, fromSampleRate, toSampleRate) ==
    LET ratio == Div(FromInt(fromSampleRate), FromInt(toSampleRate))
        newLength == MathRound(Div(FromInt(Len(inputBuffer)), ratio))
    IN [k \in 1..newLength |->
           LET srcIndex == Times(ratio, k - 1)
               srcIndexFloor == Floor(srcIndex)
               srcIndexCeil == srcIndexFloor + 1
           IN [floor |-> srcIndexFloor, ceil |-> srcIndexCeil,
               t |-> Frac(srcIndex),
               a |-> Read(inputBuffer, srcIndexFloor),
               b |-> Read(inputBuffer, srcIndexCeil)]]

\* the resampler with the source position taken one output sample ahead
resample_ahead(inputBuffer, fromSampleRate, toSampleRate) ==
    LET ratio == Div(FromInt(fromSampleRate), FromInt(toSampleRate))
        newLength == MathRound(Div(FromInt(Len(inputBuffer)), ratio))
    IN [k \in 1..newLength |->
           LET srcIndex == Times(ratio, k)
               srcIndexFloor == Floor(srcIndex)
               srcIndexCeil == Min(srcIndexFloor + 1, Len(inputBuffer) - 1)
           IN [floor |-> srcIndexFloor, ceil |-> srcIndexCeil,
               t |-> Frac(srcIndex),
               a |-> Read(inputBuffer, srcIndexFloor),
               b |-> Read(inputBuffer, srcIndexCeil)]]

\* resample(inputBuffer, fromSampleRate, toSampleRate).  Output sample k
\* (index k - 1 of the code) is a * (1 - t) + b * t, kept as the two samples
\* read, their indices and the weight; it is the sample a when t is zero.
resample(inputBuffer, fromSampleRate, toSampleRate) ==
    LET ratio == Div(FromInt(fromSampleRate), FromInt(toSampleRate))
        newLength == MathRound(Div(FromInt(Len(inputBuffer)), ratio))
    IN [k \in 1..newLength |->
           LET srcIndex == Times(ratio, k - 1)
               srcIndexFloor == Floor(srcIndex)
               srcIndexCeil == Min(srcIndexFloor + 1, Len(inputBuffer) - 1)
           IN [floor |-> srcIndexFloor, ceil |-> srcIndexCeil,
               t |-> Frac(srcIndex),
               a |-> Read(inputBuffer, srcIndexFloor),
               b |-> Read(inputBuffer, srcIndexCeil)]]

\* the conversion of a store into an Int16Array: the fraction is dropped and
\* the integer is taken modulo 2^16
ToInt16(n, d) ==
    LET whole == IF n < 0 THEN -((-n) \div d) ELSE n \div d
    IN ((whole + 32768) % 65536) - 32768

\* the quantizer without the clamp
floatTo16BitPCM_noClamp(float32Array) ==
    [i \in DOMAIN float32Array |->
        LET s == float32Array[i]
        IN IF s.num < 0 THEN ToInt16(s.num * 32768, s.den)
           ELSE ToInt16(s.num * 32767, s.den)]

floatTo16BitPCM(float32Array) ==
    [i \in DOMAIN float32Array |->
        LET x == float32Array[i]
            s == IF x.num > x.den THEN [num |-> x.den, den |-> x.den]
                 ELSE IF x.num < -x.den THEN [num |-> -x.den, den |-> x.den]
                 ELSE x
        IN IF s.num < 0 THEN ToInt16(s.num * 32768, s.den)
           ELSE ToInt16(s.num * 32767, s.den)]

\* pcm16.buffer seen as bytes: two bytes per sample, low byte first
Int16Buffer(pcm16) ==
    [k \in 1..(2 * Len(pcm16)) |->
        LET u == pcm16[(k + 1) \div 2] % 65536
        IN IF k % 2 = 1 THEN u % 256 ELSE u \div 256]

Base64Alphabet ==
    <<"A", "B", "C", "D", "E", "F", "G", "H", "I", "J", "K", "L", "M",
      "N", "O", "P", "Q", "R", "S", "T", "U", "V", "W", "X", "Y", "Z",
      "a", "b", "c", "d", "e", "f", "g", "h", "i", "j", "k", "l", "m",
      "n", "o", "p", "q", "r", "s", "t", "u", "v", "w", "x", "y", "z",
      "0", "1", "2", "3", "4", "5", "6", "7", "8", "9", "+", "/">>

\* btoa of a string of code units below 256: four characters for every three
\* code units, the last group padded with "="
btoa(binary) ==
    LET n == Len(binary)
        Code(k) == IF k \in DOMAIN binary THEN binary[k] ELSE 0
    IN [j \in 1..(4 * ((n + 2) \div 3)) |->
           LET g == 3 * ((j - 1) \div 4)
               p == (j - 1) % 4
               six == IF p = 0 THEN Code(g + 1) \div 4
                      ELSE IF p = 1
                      THEN (Code(g + 1) % 4) * 16 + Code(g + 2) \div 16
                      ELSE IF p = 2
                      THEN (Code(g + 2) % 16) * 4 + Code(g + 3) \div 64
                      ELSE Code(g + 3) % 64
           IN IF p >= 2 /\ g + p > n THEN "="
              ELSE Base64Alphabet[six + 1]]

\* the encoder that keeps seven bits of every byte
arrayBufferToBase64_sevenBits(buffer) ==
    btoa([i \in DOMAIN buffer |-> buffer[i] % 128])

\* String.fromCharCode of every byte, then btoa
arrayBufferToBase64(buffer) ==
    btoa([i \in DOMAIN buffer |-> buffer[i] % 65536])

\* ------------------------------------------------------------ audio features
frequencyBinCount == 128
Levels == {0, 40, 200, 255}

\* the byte spectrum the analyser returns, given as MaxBands level values
\* spread over the bins
Spectrum(levels) ==
    [i \in 1..frequencyBinCount |->
        levels[((i - 1) * Len(levels)) \div frequencyBinCount + 1]]

\* the sum of the bins with index from lo up to hi - 1 (indices from 0)
RECURSIVE BinSum(_, _, _)
BinSum(frequencyData, lo, hi) ==
    IF lo >= hi THEN 0
    ELSE IF lo + 1 = hi THEN frequencyData[hi]
    ELSE LET half == (lo + hi) \div 2 IN
         BinSum(frequencyData, lo, half) + BinSum(frequencyData, half, hi)

NoFeatures == [available |-> FALSE]

\* analyzeFeatures(); analyserNode tells whether the analyser exists, and
\* frequencyData is what getAnalyzerData() returns when it does.  A quotient
\* is kept as the fraction num / den; avgEnergy is totalEnergy / length.
analyzeFeatures(analyserNode, frequencyData) ==
    IF ~analyserNode THEN NoFeatures
    ELSE LET length == Len(frequencyData)
             totalEnergy == BinSum(frequencyData, 0, length)
             third == length \div 3
         IN [available |-> TRUE,
             energy |-> [num |-> totalEnergy, den |-> length * 255],
             lowEnergy |-> [num |-> BinSum(frequencyData, 0, third),
                            den |-> third * 255],
             midEnergy |-> [num |-> BinSum(frequencyData, third, third * 2),
                            den |-> third * 255],
             highEnergy |-> [num |-> BinSum(frequencyData, third * 2, length),
                             den |-> third * 255],
             isLoud |-> totalEnergy > 150 * length,
             isQuiet |-> totalEnergy < 50 * length]

\* -------------------------------------------------------------------- App
\* the agents of the band, in the order getAllAgents() iterates them
BandOrder == <<"drums", "bass">>

\* the callback toggleListening hands to startCapture
ToManager == "sendAudioToAll"

\* App as its constructor and loadSettings leave it: geminiManager tells
\* whether a Gemini key was found; isPlaying is written by the onPlay and
\* onStop callbacks of the engine.  loops holds the toggleListening
\* invocations suspended at `await startListening`: the socket whose
\* connect() promise each one awaits and the position in BandOrder it goes on
\* with.
App(geminiManager) ==
    [geminiManager |-> geminiManager, isListening |-> FALSE,
     isPlaying |-> FALSE, loops |-> {}]

\* the for loop of toggleListening from position i on, up to the first
\* startListening whose connect() is pending, then the rest of the loops
\* left suspended.  An await on a settled result goes on in a microtask,
\* before any other event is handled.
RECURSIVE listenLoop(_, _, _, _)
listenLoop(M, W, L, i) ==
    IF i > Len(BandOrder) THEN [M |-> M, W |-> W, loops |-> L]
    ELSE LET r == startListening(M, W, BandOrder[i], CbOf(BandOrder[i])) IN
         IF r.ret.value = "awaits"
         THEN [M |-> r.M, W |-> r.W,
               loops |-> L \cup {[awaits |-> r.ret.sock, next |-> i + 1]}]
         ELSE IF r.ret.value = "TypeError"
         THEN [M |-> r.M, W |-> r.W, loops |-> L]
         ELSE listenLoop(r.M, r.W, L, i + 1)

\* the connect() promise of socket k has settled: startListening returns
\* true or, from its catch clause, false, and the loop that awaited it takes
\* the next agent
resume(M, W, L, k) ==
    IF \E l \in L : l.awaits = k
    THEN LET l == CHOOSE x \in L : x.awaits = k
         IN listenLoop(M, W, L \ {l}, l.next)
    ELSE [M |-> M, W |-> W, loops |-> L]

\* toggleListening() up to its first pending await
toggleListening(A, M, W, R) ==
    IF ~A.geminiManager
    THEN [A |-> A, M |-> M, W |-> W, R |-> R,
          ret |-> Ret("toggleListening", "undefined", 0)]
    ELSE IF ~A.isListening
    THEN LET c == startCapture(R, ToManager) IN
         IF c.ret.value = "TypeError"
         THEN [A |-> [A EXCEPT !.isListening = TRUE], M |-> M, W |-> W,
               R |-> c.R, ret |-> Ret("toggleListening", "TypeError", 0)]
         ELSE LET r == listenLoop(M, W, A.loops, 1) IN
              [A |-> [A EXCEPT !.isListening = TRUE, !.loops = r.loops],
               M |-> r.M, W |-> r.W, R |-> c.R,
               ret |-> Ret("toggleListening", "undefined", 0)]
    ELSE [A |-> [A EXCEPT !.isListening = FALSE],
          M |-> [M EXCEPT !.sessions = [a \in Agents |-> 0]],
          W |-> stopAll(W, M), R |-> stopCapture(R),
          ret |-> Ret("toggleListening", "undefined", 0)]

\* ---------------------------------------------------------- StrudelEngine
\* evaluate and hush name the function init() installed: "global" (the
\* Strudel Web globals), "repl" (the wrappers of setupStrudelFromModule),
\* "stub" (the logging fallbacks of setupStrudelFunctions), "mock" or
\* "null".  audioContext is the state of the context
\* getStrudelAudioContext() returns, "none" when there is none.
\* currentCode is the number of the play() call whose code it holds, 0 for
\* the empty string.  plays holds the play() invocations suspended at an
\* await, calls counts the play() calls, and stopped tells that stop() has
\* completed and play() has not been called since.
StrudelEngine ==
    [evaluate |-> "null", hush |-> "null", isPlaying |-> FALSE,
     currentCode |-> 0, audioContext |-> "none", plays |-> <<>>,
     calls |-> 0, stopped |-> FALSE]

\* the pairs of functions init() can install
Installed ==
    {<<"global", "global">>, <<"repl", "repl">>, <<"global", "stub">>,
     <<"stub", "global">>, <<"stub", "stub">>, <<"mock", "mock">>}

\* the evaluate functions that return a promise settled by a later task
Asynchronous == {"global", "repl"}

\* play() from the statement after `await this.evaluate(codeWithTempo)`; the
\* onPlay callback of App sets App.isPlaying, onEvaluate is not set
played(E, A, id) ==
    [E |-> [E EXCEPT !.currentCode = id, !.isPlaying = TRUE],
     A |-> [A EXCEPT !.isPlaying = TRUE],
     ret |-> Ret("play", "true", 0)]

\* play() from `if (this.evaluate)` on, up to a pending await
evaluateCode(E, A, id) ==
    IF E.evaluate = "null"
    THEN [E |-> E, A |-> A, ret |-> Ret("play", "false", 0)]
    ELSE IF E.evaluate \in Asynchronous
    THEN [E |-> [E EXCEPT !.plays = Append(@, [at |-> "evaluate",
                                               id |-> id])],
          A |-> A, ret |-> Ret("play", "awaits", 0)]
    ELSE IF E.evaluate = "mock"
    THEN played([E EXCEPT !.currentCode = id, !.isPlaying = TRUE], A, id)
    ELSE played(E, A, id)

\* play(code) up to its first pending await; empty tells that the code is
\* missing or blank
play(E, A, empty) ==
    LET id == E.calls + 1
        E1 == [E EXCEPT !.calls = id, !.stopped = FALSE]
    IN IF empty THEN [E |-> E1, A |-> A, ret |-> Ret("play", "false", 0)]
       ELSE IF E.audioContext = "suspended"
       THEN [E |-> [E1 EXCEPT !.plays = Append(@, [at |-> "resume",
                                                   id |-> id])],
             A |-> A, ret |-> Ret("play", "awaits", 0)]
       ELSE evaluateCode(E1, A, id)

\* the audio context has resumed: every play() that awaited it goes on, in
\* the order of the calls
RECURSIVE resumed(_, _, _)
resumed(E, A, i) ==
    IF i > Len(E.plays) THEN [E |-> E, A |-> A]
    ELSE IF E.plays[i].at = "resume"
    THEN LET E1 == [E EXCEPT !.plays = SubSeq(@, 1, i - 1)
                                        \o SubSeq(@, i + 1, Len(@))]
             r == evaluateCode(E1, A, E.plays[i].id)
         IN resumed(r.E, r.A, i)
    ELSE resumed(E, A, i + 1)

\* the evaluate() promise awaited by the i-th suspended play() has settled.
\* The wrapper of setupStrudelFromModule catches what repl.evaluate raises,
\* so its promise is always fulfilled; a rejection of the global evaluate is
\* caught by play(), which reports it and returns false.
evaluated(E, A, i, ok) ==
    LET E1 == [E EXCEPT !.plays = SubSeq(@, 1, i - 1)
                                     \o SubSeq(@, i + 1, Len(@))]
    IN IF ok \/ E.evaluate = "repl" THEN played(E1, A, E.plays[i].id)
       ELSE [E |-> E1, A |-> A, ret |-> Ret("play", "false", 0)]

\* stop(); throws tells whether hush() raises, which the catch clause
\* swallows before isPlaying is reset.  The mock hush resets isPlaying and
\* calls onStop itself.
stop(E, A, throws) ==
    IF E.hush # "null" /\ throws THEN [E |-> E, A |-> A]
    ELSE [E |-> [E EXCEPT !.isPlaying = FALSE, !.stopped = TRUE],
          A |-> [A EXCEPT !.isPlaying = FALSE]]

\* ----------------------------------------------------- StrudelEngine.init
\* `const maxChecks = 50`
maxChecks == 50

\* the globals of the window init() reads: evaluate, hush, strudelRepl and
\* strudel tell whether the global is defined (a function, for the first
\* two), strudelReady is the flag, and getStrudelAudioContext is the state
\* of the context the function returns, "undefined" when there is none
Globals == {"evaluate", "hush", "strudelReady", "strudelRepl", "strudel"}
Window(context) ==
    [evaluate |-> FALSE, hush |-> FALSE, strudelReady |-> FALSE,
     strudelRepl |-> FALSE, strudel |-> FALSE,
     getStrudelAudioContext |-> context]

\* the page when init() returns its promise: checkCount is 0, the first
\* check is scheduled (timer) and the promise is pending.  The code only
\* compares checkCount with maxChecks and tests `checkCount % 10 === 1`
\* (for its log), so above maxChecks the count is kept modulo 10
Page(context) ==
    [window |-> Window(context), checkCount |-> 0, timer |-> TRUE,
     resolved |-> FALSE]

\* setupStrudelFromModule()
setupStrudelFromModule(E, w) ==
    [E EXCEPT !.evaluate = "repl", !.hush = "repl",
              !.audioContext = IF w.getStrudelAudioContext # "undefined"
                               THEN w.getStrudelAudioContext ELSE @]

\* setupStrudelFunctions()
setupStrudelFunctions(E, w) ==
    [E EXCEPT !.evaluate = IF w.evaluate THEN "global" ELSE "stub",
              !.hush = IF w.hush THEN "global" ELSE "stub"]

\* setupMockMode()
setupMockMode(E) == [E EXCEPT !.evaluate = "mock", !.hush = "mock"]

\* one run of checkStrudel, the callback of the timer: resolve(true) ends
\* the detection, setTimeout(checkStrudel, checkInterval) schedules the
\* next run
checkStrudel(E, P) ==
    LET w == P.window
        checkCount == IF P.checkCount < maxChecks + 10
                      THEN P.checkCount + 1 ELSE P.checkCount - 9
        P1 == [P EXCEPT !.checkCount = checkCount]
        resolve == [P1 EXCEPT !.timer = FALSE, !.resolved = TRUE]
        setTimeout == [P1 EXCEPT !.timer = TRUE]
    IN IF w.evaluate /\ w.hush
       THEN [E |-> [E EXCEPT !.evaluate = "global", !.hush = "global"],
             P |-> resolve]
       ELSE IF w.strudelReady /\ w.strudelRepl
       THEN [E |-> setupStrudelFromModule(E, w), P |-> resolve]
       ELSE IF w.strudelRepl
       THEN [E |-> E, P |-> setTimeout]
       ELSE IF w.strudel
       THEN [E |-> setupStrudelFunctions(E, w), P |-> resolve]
       ELSE IF checkCount < maxChecks
       THEN [E |-> E, P |-> setTimeout]
       ELSE [E |-> setupMockMode(E), P |-> resolve]

\* ------------------------------------------------------------------ Agent
maxHistory == 5

\* an agent of the band.  status is the last value handed to
\* onStatusChange.  requests holds the generate() invocations suspended in
\* callAPI, each with the pattern length it chose; apiCalls counts them.
\* historyIndex is the index of the code, counted from 0.
Agent ==
    [code |-> "", patternLength |-> 4, isActive |-> FALSE,
     isMuted |-> FALSE, isSolo |-> FALSE, isGenerating |-> FALSE,
     patternHistory |-> <<>>, history |-> <<>>, historyIndex |-> -1,
     status |-> "idle", requests |-> <<>>, apiCalls |-> 0]

\* the lengths choosePatternLength picks from, for drums and bass alike
PatternLengths == {2, 4}

\* what the model answers: Strudel code or nothing, with or without a
\* markdown fence around it
Responses ==
    {[fence |-> f, body |-> b] :
        f \in BOOLEAN, b \in {"", "s(\"bd\")", "note(\"c2\")"}}

\* cleanCode(): the fence markers are removed
cleanCode(response) == response.body

addToHistory(patternHistory, code, length) ==
    LET h == Append(patternHistory, [code |-> code, length |-> length])
    IN IF Len(h) > maxHistory THEN Tail(h) ELSE h

\* generate() without the isGenerating test
generate_noGuard(G, length) ==
    [G |-> [G EXCEPT !.isGenerating = TRUE, !.status = "generating",
                     !.patternLength = length,
                     !.requests = Append(@, length),
                     !.apiCalls = @ + 1],
     ret |-> Ret("generate", "awaits", 0)]

\* generate() up to the await inside callAPI; length is the pattern length
\* choosePatternLength draws
generate(G, length) ==
    IF G.isGenerating THEN [G |-> G, ret |-> Ret("generate", "null", 0)]
    ELSE [G |-> [G EXCEPT !.isGenerating = TRUE, !.status = "generating",
                          !.patternLength = length,
                          !.requests = Append(@, length),
                          !.apiCalls = @ + 1],
          ret |-> Ret("generate", "awaits", 0)]

\* the rest of generate() for a request that was answered, without the
\* finally clause
answered_noFinally(G, i, response, throws) ==
    LET G1 == [G EXCEPT !.requests = SubSeq(@, 1, i - 1)
                                        \o SubSeq(@, i + 1, Len(@))]
        code == cleanCode(response)
        G2 == [G1 EXCEPT !.patternHistory =
                            addToHistory(@, code, G.requests[i])]
    IN IF throws
       THEN [G |-> [G1 EXCEPT !.status = "error"],
             ret |-> Ret("generate", "Error", 0)]
       ELSE IF code # ""
       THEN [G |-> [G2 EXCEPT !.code = code, !.isActive = TRUE,
                              !.status = "active",
                              !.history = Append(@, code),
                              !.historyIndex = Len(G.history),
                              !.isGenerating = FALSE],
             ret |-> Ret("generate", code, 0)]
       ELSE [G |-> G2, ret |-> Ret("generate", "null", 0)]

\* the rest of generate() once generateWithFallback has settled for the
\* i-th suspended request: callAPI cleans the response and records it, then
\* generate installs a code that is not empty; throws tells that callAPI
\* raised instead
answered(G, i, response, throws) ==
    LET G1 == [G EXCEPT !.requests = SubSeq(@, 1, i - 1)
                                        \o SubSeq(@, i + 1, Len(@))]
        code == cleanCode(response)
        G2 == [G1 EXCEPT !.patternHistory =
                            addToHistory(@, code, G.requests[i])]
    IN IF throws
       THEN [G |-> [G1 EXCEPT !.status = "error", !.isGenerating = FALSE],
             ret |-> Ret("generate", "Error", 0)]
       ELSE IF code # ""
       THEN [G |-> [G2 EXCEPT !.code = code, !.isActive = TRUE,
                              !.status = "active",
                              !.history = Append(@, code),
                              !.historyIndex = Len(G.history),
                              !.isGenerating = FALSE],
             ret |-> Ret("generate", code, 0)]
       ELSE [G |-> [G2 EXCEPT !.isGenerating = FALSE],
             ret |-> Ret("generate", "null", 0)]

\* undo() that also steps back from the first entry
undo_noFloor(G) ==
    IF G.historyIndex >= 0
    THEN [G EXCEPT !.historyIndex = @ - 1,
                   !.code = IF G.historyIndex >= 1
                            THEN G.history[G.historyIndex] ELSE ""]
    ELSE G

undo(G) ==
    IF G.historyIndex > 0
    THEN [G EXCEPT !.historyIndex = @ - 1,
                   !.code = G.history[G.historyIndex]]
    ELSE G

redo(G) ==
    IF G.historyIndex < Len(G.history) - 1
    THEN [G EXCEPT !.historyIndex = @ + 1,
                   !.code = G.history[G.historyIndex + 2]]
    ELSE G

\* the band as its constructor leaves it
Band == [a \in Agents |-> Agent]

\* ------------------------------------------------------- App.toggleSolo
\* App.play(): getCombinedCode() is never blank (it is '// No active
\* patterns' when no agent is active), so the engine evaluates it
appPlay(E, A) == play(E, A, FALSE)

\* toggleSolo(agentId) that leaves the solo flags of the other agents alone
toggleSolo_keepOthers(A, B, E, agentId) ==
    IF agentId \notin Agents THEN [A |-> A, B |-> B, E |-> E]
    ELSE LET isSolo == ~B[agentId].isSolo
             B2 == [a \in Agents |->
                      IF a = agentId
                      THEN [B[a] EXCEPT !.isSolo = isSolo,
                                        !.isMuted = IF isSolo THEN @
                                                    ELSE FALSE]
                      ELSE [B[a] EXCEPT !.isMuted = isSolo]]
         IN IF A.isPlaying
            THEN LET r == appPlay(E, A) IN [A |-> r.A, B |-> B2, E |-> r.E]
            ELSE [A |-> A, B |-> B2, E |-> E]

\* App.toggleSolo(agentId): the other agents lose their solo flag, the agent
\* toggles its own, the others are muted when it is now solo and everyone
\* is unmuted when it is not; then the combined code is played again when
\* the application is playing
toggleSolo(A, B, E, agentId) ==
    IF agentId \notin Agents THEN [A |-> A, B |-> B, E |-> E]
    ELSE LET B1 == [a \in Agents |->
                      IF a # agentId THEN [B[a] EXCEPT !.isSolo = FALSE]
                      ELSE B[a]]
             isSolo == ~B1[agentId].isSolo
             B2 == [a \in Agents |->
                      IF a = agentId
                      THEN [B1[a] EXCEPT !.isSolo = isSolo,
                                         !.isMuted = IF isSolo THEN @
                                                     ELSE FALSE]
                      ELSE [B1[a] EXCEPT !.isMuted = isSolo]]
         IN IF A.isPlaying
            THEN LET r == appPlay(E, A) IN [A |-> r.A, B |-> B2, E |-> r.E]
            ELSE [A |-> A, B |-> B2, E |-> E]

\* ------------------------------------------------------------------ state
Commit(W) ==
    /\ live' = W.live
    /\ socks' = W.socks
    /\ delivered' = W.delivered
    /\ errs' = W.errs

Rig == [cap |-> cap, ctxs |-> ctxs, procs |-> procs, frames |-> frames]

CommitRig(R) ==
    /\ cap' = R.cap
    /\ ctxs' = R.ctxs
    /\ procs' = R.procs
    /\ frames' = R.frames

\* the capture pipeline just constructed
NewCapture ==
    /\ cap = AudioCapture
    /\ ctxs = <<>>
    /\ procs = <<>>
    /\ frames = <<>>

\* a frame and a spectrum on which nothing has been computed yet
NoFrame ==
    [inputBuffer |-> <<>>, fromSampleRate |-> 48000, toSampleRate |-> 16000,
     stage |-> "none", resampled |-> <<>>, pcm16 |-> <<>>,
     base64Audio |-> <<>>]

NoSpectrum ==
    [analyserNode |-> FALSE, frequencyData |-> <<>>, done |-> FALSE,
     features |-> NoFeatures]

\* no frame and no spectrum has been taken
NoSignal ==
    /\ dsp = <<>>
    /\ feat = <<>>

\* the application, the engine and the band are not part of the run
NoApp ==
    /\ app = <<>>
    /\ engine = <<>>
    /\ band = <<>>
    /\ page = <<>>

\* the manager just constructed (the constructor sets useSharedSession to
\* TRUE; per-listener mode is the same object with the field set to FALSE)
InitMux ==
    /\ mgr \in {GeminiAgentManager(k, sh) : k \in BOOLEAN, sh \in BOOLEAN}
    /\ live = <<>>
    /\ socks = <<>>
    /\ delivered = <<>>
    /\ errs = <<>>
    /\ nCalls = 0
    /\ lastIn = <<>>
    /\ dropped = {}
    /\ closed = {}
    /\ failed = {}
    /\ ret = NoRet
    /\ garbled = 0
    /\ NewCapture
    /\ NoApp
    /\ NoSignal

\* one streaming session just constructed: the shared-mode manager after
\* init(), as App.init leaves it
Init ==
    /\ mgr = [GeminiAgentManager(TRUE, TRUE) EXCEPT !.sharedSession = 1]
    /\ live = <<GeminiLive(TRUE)>>
    /\ socks = <<>>
    /\ delivered = <<>>
    /\ errs = <<>>
    /\ nCalls = 0
    /\ lastIn = <<>>
    /\ dropped = {}
    /\ closed = {}
    /\ failed = {}
    /\ ret = NoRet
    /\ garbled = 0
    /\ NewCapture
    /\ NoApp
    /\ NoSignal

\* a manager just constructed and a streaming session constructed next to
\* it with the same key (CONFIG.GEMINI_API_KEY, which may be empty)
InitCalls ==
    /\ mgr \in {GeminiAgentManager(k, sh) : k \in BOOLEAN, sh \in BOOLEAN}
    /\ live = <<GeminiLive(mgr.apiKey)>>
    /\ socks = <<>>
    /\ delivered = <<>>
    /\ errs = <<>>
    /\ nCalls = 0
    /\ lastIn = <<>>
    /\ dropped = {}
    /\ closed = {}
    /\ failed = {}
    /\ ret = NoRet
    /\ garbled = 0
    /\ NewCapture
    /\ NoApp
    /\ NoSignal

\* the frames handed to the resampler and the encoder: every short frame,
\* and silence of 240 and 480 samples
ShortFrames == UNION {[1..n -> Samples] : n \in 0..MaxSamples}
Silence(n) == [i \in 1..n |-> [num |-> 0, den |-> 2]]
Frames == ShortFrames \cup {Silence(n) : n \in {240, 480}}
Rates == {16000, 32000, 44100, 48000}

\* a frame at one rate, to be brought to another
InitSignal ==
    /\ mgr = [GeminiAgentManager(TRUE, TRUE) EXCEPT !.sharedSession = 1]
    /\ live = <<GeminiLive(TRUE)>>
    /\ socks = <<>>
    /\ delivered = <<>>
    /\ errs = <<>>
    /\ nCalls = 0
    /\ lastIn = <<>>
    /\ dropped = {}
    /\ closed = {}
    /\ failed = {}
    /\ ret = NoRet
    /\ garbled = 0
    /\ NewCapture
    /\ NoApp
    /\ dsp \in {[NoFrame EXCEPT !.inputBuffer = f, !.fromSampleRate = r1,
                                !.toSampleRate = r2, !.stage = "frame"] :
                   f \in Frames, r1 \in Rates, r2 \in Rates}
    /\ feat = NoSpectrum

\* the capture object with or without its analyser, and the spectrum the
\* analyser holds
InitFeatures ==
    /\ mgr = [GeminiAgentManager(TRUE, TRUE) EXCEPT !.sharedSession = 1]
    /\ live = <<GeminiLive(TRUE)>>
    /\ socks = <<>>
    /\ delivered = <<>>
    /\ errs = <<>>
    /\ nCalls = 0
    /\ lastIn = <<>>
    /\ dropped = {}
    /\ closed = {}
    /\ failed = {}
    /\ ret = NoRet
    /\ garbled = 0
    /\ NewCapture
    /\ NoApp
    /\ dsp = NoFrame
    /\ feat \in {[NoSpectrum EXCEPT !.analyserNode = TRUE,
                                    !.frequencyData = Spectrum(l)] :
                    l \in [1..MaxBands -> Levels]} \cup {NoSpectrum}

\* the application after App.init(): the capture pipeline after its init(),
\* which may have failed, and the shared-mode manager after its init() when
\* a Gemini key was found
InitToggle ==
    /\ app \in {App(g) : g \in BOOLEAN}
    /\ mgr = [GeminiAgentManager(TRUE, TRUE) EXCEPT !.sharedSession = 1]
    /\ live = <<GeminiLive(TRUE)>>
    /\ socks = <<>>
    /\ delivered = <<>>
    /\ errs = <<>>
    /\ nCalls = 0
    /\ lastIn = <<>>
    /\ dropped = {}
    /\ closed = {}
    /\ failed = {}
    /\ ret = NoRet
    /\ garbled = 0
    /\ \E f \in InitFailures :
          LET R == capInit([cap |-> AudioCapture, ctxs |-> <<>>,
                            procs |-> <<>>, frames |-> <<>>], f).R
          IN /\ cap = R.cap
             /\ ctxs = R.ctxs
             /\ procs = R.procs
             /\ frames = R.frames
    /\ NoSignal
    /\ engine = <<>>
    /\ band = <<>>
    /\ page = <<>>

\* the engine after its init() and App.setupCallbacks, with the audio
\* context of the page, if any, running or still suspended
InitEngine ==
    /\ engine \in {[StrudelEngine EXCEPT !.evaluate = f[1], !.hush = f[2],
                                         !.audioContext = c] :
                      f \in Installed,
                      c \in {"none", "running", "suspended"}}
    /\ app = App(FALSE)
    /\ band = <<>>
    /\ page = <<>>
    /\ mgr = [GeminiAgentManager(TRUE, TRUE) EXCEPT !.sharedSession = 1]
    /\ live = <<GeminiLive(TRUE)>>
    /\ socks = <<>>
    /\ delivered = <<>>
    /\ errs = <<>>
    /\ nCalls = 0
    /\ lastIn = <<>>
    /\ dropped = {}
    /\ closed = {}
    /\ failed = {}
    /\ ret = NoRet
    /\ garbled = 0
    /\ NewCapture
    /\ NoSignal

\* the band just constructed
InitBand ==
    /\ band = Band
    /\ page = <<>>
    /\ app = <<>>
    /\ engine = <<>>
    /\ mgr = [GeminiAgentManager(TRUE, TRUE) EXCEPT !.sharedSession = 1]
    /\ live = <<GeminiLive(TRUE)>>
    /\ socks = <<>>
    /\ delivered = <<>>
    /\ errs = <<>>
    /\ nCalls = 0
    /\ lastIn = <<>>
    /\ dropped = {}
    /\ closed = {}
    /\ failed = {}
    /\ ret = NoRet
    /\ garbled = 0
    /\ NewCapture
    /\ NoSignal

\* the application after App.init(): the band just constructed and the
\* engine after its init()
InitSolo ==
    /\ band = Band
    /\ page = <<>>
    /\ app = App(FALSE)
    /\ engine \in {[StrudelEngine EXCEPT !.evaluate = f[1], !.hush = f[2],
                                         !.audioContext = c] :
                      f \in Installed,
                      c \in {"none", "running", "suspended"}}
    /\ mgr = [GeminiAgentManager(TRUE, TRUE) EXCEPT !.sharedSession = 1]
    /\ live = <<GeminiLive(TRUE)>>
    /\ socks = <<>>
    /\ delivered = <<>>
    /\ errs = <<>>
    /\ nCalls = 0
    /\ lastIn = <<>>
    /\ dropped = {}
    /\ closed = {}
    /\ failed = {}
    /\ ret = NoRet
    /\ garbled = 0
    /\ NewCapture
    /\ NoSignal

\* the engine just constructed and init() called on a page none of whose
\* Strudel globals is defined yet
InitDetect ==
    /\ engine = StrudelEngine
    /\ page \in {Page(c) : c \in {"undefined", "running", "suspended"}}
    /\ app = <<>>
    /\ band = <<>>
    /\ mgr = [GeminiAgentManager(TRUE, TRUE) EXCEPT !.sharedSession = 1]
    /\ live = <<GeminiLive(TRUE)>>
    /\ socks = <<>>
    /\ delivered = <<>>
    /\ errs = <<>>
    /\ nCalls = 0
    /\ lastIn = <<>>
    /\ dropped = {}
    /\ closed = {}
    /\ failed = {}
    /\ ret = NoRet
    /\ garbled = 0
    /\ NewCapture
    /\ NoSignal

Sessions == 1..Len(live)
Sockets == 1..Len(socks)

\* --------------------------------------------------- manager operations
MgrInit ==
    LET r == init(mgr, World) IN
    /\ Len(r.W.live) <= MaxSessions
    /\ mgr' = r.M
    /\ Commit(r.W)
    /\ ret' = r.ret
    /\ garbled' = 0
    /\ UNCHANGED <<captureVars, signalVars, appVars>>
    /\ UNCHANGED <<nCalls, lastIn, dropped, closed, failed>>

StartListening(a, cb) ==
    LET r == startListening(mgr, World, a, cb) IN
    /\ Len(r.W.live) <= MaxSessions
    /\ Len(r.W.socks) <= MaxSockets
    /\ mgr' = r.M
    /\ Commit(r.W)
    /\ ret' = r.ret
    /\ failed' = IF r.ret.value = "awaits"
                 THEN failed \ {socks'[r.ret.sock].owner} ELSE failed
    /\ garbled' = 0
    /\ UNCHANGED <<captureVars, signalVars, appVars>>
    /\ UNCHANGED <<nCalls, lastIn, dropped, closed>>

SendAudioToAll ==
    /\ nCalls < MaxCalls
    /\ nCalls' = nCalls + 1
    /\ Commit(sendAudioToAll(World, mgr, nCalls + 1))
    /\ ret' = NoRet
    /\ garbled' = 0
    /\ UNCHANGED <<captureVars, signalVars, appVars>>
    /\ UNCHANGED <<mgr, lastIn, dropped, closed, failed>>

SendToAgent(a) ==
    /\ nCalls < MaxCalls
    /\ nCalls' = nCalls + 1
    /\ Commit(sendToAgent(World, mgr, a, nCalls + 1))
    /\ ret' = NoRet
    /\ garbled' = 0
    /\ UNCHANGED <<captureVars, signalVars, appVars>>
    /\ UNCHANGED <<mgr, lastIn, dropped, closed, failed>>

StopAll ==
    /\ Commit(stopAll(World, mgr))
    /\ mgr' = [mgr EXCEPT !.sessions = [a \in Agents |-> 0]]
    /\ closed' = closed \cup
                 {s \in ({mgr.sharedSession}
                         \cup {mgr.sessions[a] : a \in Agents}) \ {0} :
                    live[s].ws # 0}
    /\ ret' = NoRet
    /\ garbled' = 0
    /\ UNCHANGED <<captureVars, signalVars, appVars>>
    /\ UNCHANGED <<nCalls, lastIn, dropped, failed>>

\* --------------------------------- operations called on a session directly
CallConnect(s, agentConfig) ==
    /\ WouldOpen(World, s) => Len(socks) < MaxSockets
    /\ Commit(connect(World, s, agentConfig))
    /\ ret' = connectResult(World, s)
    /\ failed' = IF WouldOpen(World, s) THEN failed \ {s} ELSE failed
    /\ garbled' = 0
    /\ UNCHANGED <<captureVars, signalVars, appVars>>
    /\ UNCHANGED <<mgr, nCalls, lastIn, dropped, closed>>

CallSendAudio(s) ==
    /\ nCalls < MaxCalls
    /\ nCalls' = nCalls + 1
    /\ Commit(sendAudio(World, s, nCalls + 1))
    /\ dropped' = IF live[s].isConnected THEN dropped
                  ELSE dropped \cup {<<s, nCalls + 1>>}
    /\ ret' = NoRet
    /\ garbled' = 0
    /\ UNCHANGED <<captureVars, signalVars, appVars>>
    /\ UNCHANGED <<mgr, lastIn, closed, failed>>

CallSendText(s) ==
    /\ nCalls < MaxCalls
    /\ nCalls' = nCalls + 1
    /\ Commit(sendText(World, s, nCalls + 1, ""))
    /\ ret' = NoRet
    /\ garbled' = 0
    /\ UNCHANGED <<captureVars, signalVars, appVars>>
    /\ UNCHANGED <<mgr, lastIn, dropped, closed, failed>>

CallDisconnect(s) ==
    /\ Commit(disconnect(World, s))
    /\ closed' = IF live[s].ws # 0 THEN closed \cup {s} ELSE closed
    /\ ret' = NoRet
    /\ garbled' = 0
    /\ UNCHANGED <<captureVars, signalVars, appVars>>
    /\ UNCHANGED <<mgr, nCalls, lastIn, dropped, failed>>

SetOnError(s) ==
    /\ ~live[s].onError
    /\ live' = [live EXCEPT ![s].onError = TRUE]
    /\ ret' = NoRet
    /\ garbled' = 0
    /\ UNCHANGED <<captureVars, signalVars, appVars>>
    /\ UNCHANGED <<mgr, socks, delivered, errs, nCalls, lastIn, dropped, closed,
                   failed>>

\* ------------------------------------------------------------ socket events
OnOpen(k) ==
    /\ socks[k].readyState = "CONNECTING"
    /\ Commit(onopen([World EXCEPT !.socks[k].readyState = "OPEN",
                                   !.socks[k].opened = TRUE], k))
    /\ ret' = NoRet
    /\ garbled' = 0
    /\ UNCHANGED <<captureVars, signalVars, appVars>>
    /\ UNCHANGED <<mgr, nCalls, lastIn, dropped, closed, failed>>

\* One inbound message dispatched by ws.onmessage.  lastIn and delivered
\* describe the dispatch in progress: the message, the part whose onResponse
\* invocation throws (0: none does), the exception that left handleMessage
\* and the onResponse invocations made.
OnMessage(k, m, throwAt) ==
    /\ socks[k].readyState = "OPEN"
    /\ lastIn = <<>>
    /\ IF throwAt = 0 THEN TRUE
       ELSE IF throwAt <= NumParts(m) THEN Truthy(m.parts[throwAt])
       ELSE FALSE
    /\ lastIn' = <<[sock |-> k, m |-> m, throwAt |-> throwAt,
                   raised |-> handleMessageRaises(m, throwAt)]>>
    /\ Commit(handleMessage([World EXCEPT !.delivered = <<>>],
                            socks[k].owner, m, throwAt))
    /\ ret' = NoRet
    /\ garbled' = IF m.kind = "malformed" THEN k ELSE 0
    /\ UNCHANGED <<captureVars, signalVars, appVars>>
    /\ UNCHANGED <<mgr, nCalls, dropped, closed, failed>>

\* the handler has returned to the event loop
DispatchDone ==
    /\ lastIn # <<>>
    /\ lastIn' = <<>>
    /\ delivered' = <<>>
    /\ ret' = NoRet
    /\ UNCHANGED garbled
    /\ UNCHANGED <<captureVars, signalVars, appVars>>
    /\ UNCHANGED <<mgr, live, socks, errs, nCalls, dropped, closed, failed>>

\* the event loop is between two tasks
Idle == lastIn = <<>>

\* the server starts the closing handshake: no handler runs
ServerClosing(k) ==
    /\ socks[k].readyState = "OPEN"
    /\ socks' = [socks EXCEPT ![k].readyState = "CLOSING"]
    /\ ret' = NoRet
    /\ garbled' = 0
    /\ UNCHANGED <<captureVars, signalVars, appVars>>
    /\ UNCHANGED <<mgr, live, delivered, errs, nCalls, lastIn, dropped, closed,
                   failed>>

\* the connection fails: the error event, then the close event
OnError(k) ==
    /\ socks[k].readyState # "CLOSED"
    /\ Commit(onclose(onerror(
          [World EXCEPT !.socks[k].readyState = "CLOSED"], k), k))
    /\ closed' = IF live[socks[k].owner].ws = k
                 THEN closed \cup {socks[k].owner} ELSE closed
    /\ failed' = IF live[socks[k].owner].ws = k
                 THEN failed \cup {socks[k].owner} ELSE failed
    /\ ret' = NoRet
    /\ garbled' = 0
    /\ UNCHANGED <<captureVars, signalVars, appVars>>
    /\ UNCHANGED <<mgr, nCalls, lastIn, dropped>>

\* the connection closes cleanly: the close event alone
OnClose(k) ==
    /\ socks[k].readyState \in {"OPEN", "CLOSING"}
    /\ socks[k].opened
    /\ Commit(onclose([World EXCEPT !.socks[k].readyState = "CLOSED"], k))
    /\ closed' = IF live[socks[k].owner].ws = k
                 THEN closed \cup {socks[k].owner} ELSE closed
    /\ ret' = NoRet
    /\ garbled' = 0
    /\ UNCHANGED <<captureVars, signalVars, appVars>>
    /\ UNCHANGED <<mgr, nCalls, lastIn, dropped, failed>>

\* ------------------------------------------------- capture pipeline steps
CapInit(failAt) ==
    LET r == capInit(Rig, failAt) IN
    /\ Len(r.R.ctxs) <= MaxContexts
    /\ CommitRig(r.R)
    /\ ret' = r.ret
    /\ UNCHANGED <<sessionVars, signalVars, appVars>>

StartCapture(cb) ==
    LET r == startCapture(Rig, cb) IN
    /\ Len(r.R.procs) <= MaxProcessors
    /\ CommitRig(r.R)
    /\ ret' = r.ret
    /\ UNCHANGED <<sessionVars, signalVars, appVars>>

StopCapture ==
    /\ CommitRig(stopCapture(Rig))
    /\ ret' = NoRet
    /\ UNCHANGED <<sessionVars, signalVars, appVars>>

Destroy ==
    /\ CommitRig(destroy(Rig))
    /\ ret' = NoRet
    /\ UNCHANGED <<sessionVars, signalVars, appVars>>

\* the buffers delivered so far, all processors together
RECURSIVE Delivered(_, _)
Delivered(P, n) == IF n = 0 THEN 0 ELSE P[n].fired + Delivered(P, n - 1)

\* The audio thread hands processor p its next buffer.  A processor fed by a
\* source keeps getting buffers while its context runs; one whose output was
\* disconnected may still get the buffers already scheduled.
OnAudioProcess(p, throws) ==
    /\ procs[p].source
    /\ ctxs[procs[p].ctx] = "running"
    /\ Delivered(procs, Len(procs)) < MaxBuffers
    /\ throws => cap.isCapturing /\ cap.onAudioData # "null"
    /\ LET r == onaudioprocess(Rig, p, throws) IN
       /\ CommitRig(r.R)
       /\ ret' = r.ret
    /\ UNCHANGED <<sessionVars, signalVars, appVars>>

\* One streaming session used through its own methods: its life cycle and
\* its outbound path.  Inbound dispatch only appends to delivered and the
\* manager only calls the methods below, so neither is part of this
\* specification.
Next ==
    \/ \E s \in Sessions : CallConnect(s, "null")
    \/ \E s \in Sessions : CallSendAudio(s)
    \/ \E s \in Sessions : CallSendText(s)
    \/ \E s \in Sessions : CallDisconnect(s)
    \/ \E s \in Sessions : SetOnError(s)
    \/ \E k \in Sockets : OnOpen(k)
    \/ \E k \in Sockets : ServerClosing(k)
    \/ \E k \in Sockets : OnError(k)
    \/ \E k \in Sockets : OnClose(k)

Spec == Init /\ [][Next]_vars

\* The multiplexer registering listeners and the inbound dispatch of the
\* sessions it creates.
ListenNext ==
    \/ Idle /\ MgrInit
    \/ Idle /\ \E a \in AgentIds : StartListening(a, CbOf(a))
    \/ Idle /\ \E k \in Sockets : OnOpen(k)
    \/ \E k \in Sockets, m \in InboundMessages, t \in 0..MaxParts :
          OnMessage(k, m, t)
    \/ DispatchDone

SpecListen == InitMux /\ [][ListenNext]_vars

\* The multiplexer creating and tearing down sessions.
TeardownNext ==
    \/ MgrInit
    \/ \E a \in AgentIds : StartListening(a, CbOf(a))
    \/ StopAll
    \/ \E k \in Sockets : OnOpen(k)
    \/ \E k \in Sockets : ServerClosing(k)
    \/ \E k \in Sockets : OnError(k)
    \/ \E k \in Sockets : OnClose(k)

SpecTeardown == InitMux /\ [][TeardownNext]_vars

\* The calls that return a result, with and without an API key.
CallsNext ==
    \/ MgrInit
    \/ \E a \in AgentIds : StartListening(a, CbOf(a))
    \/ \E s \in Sessions : CallConnect(s, "null")
    \/ \E k \in Sockets : OnOpen(k)
    \/ \E k \in Sockets : OnError(k)

SpecCalls == InitCalls /\ [][CallsNext]_vars

\* The multiplexer fanning captured audio out to its sessions.
RouteNext ==
    \/ MgrInit
    \/ \E a \in AgentIds : StartListening(a, CbOf(a))
    \/ SendAudioToAll
    \/ \E k \in Sockets : OnOpen(k)
    \/ \E k \in Sockets : ServerClosing(k)

SpecRoute == InitMux /\ [][RouteNext]_vars

\* The multiplexer routing a text instruction to the session of a listener.
TellNext ==
    \/ MgrInit
    \/ \E a \in AgentIds : StartListening(a, CbOf(a))
    \/ \E a \in AgentIds : SendToAgent(a)
    \/ \E k \in Sockets : OnOpen(k)

SpecTell == InitMux /\ [][TellNext]_vars

\* The capture pipeline driven by the application and by the audio thread.
CaptureNext ==
    \/ \E f \in InitFailures : CapInit(f)
    \/ \E cb \in FrameCallbacks : StartCapture(cb)
    \/ StopCapture
    \/ Destroy
    \/ \E p \in DOMAIN procs, throws \in BOOLEAN : OnAudioProcess(p, throws)

SpecCapture == Init /\ [][CaptureNext]_vars

\* every connect() awaited so far has settled
Settled == \A k \in Sockets : socks[k].promise # "pending"

\* the manager driven by a caller that awaits each startListening before it
\* makes the next call
AwaitNext ==
    \/ MgrInit
    \/ Settled /\ \E a \in AgentIds : StartListening(a, CbOf(a))
    \/ \E k \in Sockets : OnOpen(k)
    \/ \E k \in Sockets : ServerClosing(k)
    \/ \E k \in Sockets : OnError(k)
    \/ \E k \in Sockets : OnClose(k)

SpecAwait == InitMux /\ [][AwaitNext]_vars

\* ------------------------------------------------ resampler, encoder steps
Resample ==
    /\ dsp.stage = "frame"
    /\ dsp' = [dsp EXCEPT !.stage = "resampled",
                          !.resampled = resample(dsp.inputBuffer,
                                                 dsp.fromSampleRate,
                                                 dsp.toSampleRate)]
    /\ UNCHANGED <<sessionVars, captureVars, appVars, ret, feat>>

FloatTo16BitPCM ==
    /\ dsp.stage = "frame"
    /\ dsp' = [dsp EXCEPT !.stage = "quantized",
                          !.pcm16 = floatTo16BitPCM(dsp.inputBuffer)]
    /\ UNCHANGED <<sessionVars, captureVars, appVars, ret, feat>>

ArrayBufferToBase64 ==
    /\ dsp.stage = "quantized"
    /\ dsp' = [dsp EXCEPT !.stage = "encoded",
                          !.base64Audio =
                              arrayBufferToBase64(Int16Buffer(dsp.pcm16))]
    /\ UNCHANGED <<sessionVars, captureVars, appVars, ret, feat>>

AnalyzeFeatures ==
    /\ ~feat.done
    /\ feat' = [feat EXCEPT !.done = TRUE,
                            !.features = analyzeFeatures(feat.analyserNode,
                                                         feat.frequencyData)]
    /\ UNCHANGED <<sessionVars, captureVars, appVars, ret, dsp>>

\* the pure functions of the capture pipeline applied to a frame
SignalNext ==
    \/ Resample
    \/ FloatTo16BitPCM
    \/ ArrayBufferToBase64

SpecSignal == InitSignal /\ [][SignalNext]_vars

\* the feature analysis applied to a spectrum
FeaturesNext == AnalyzeFeatures

SpecFeatures == InitFeatures /\ [][FeaturesNext]_vars

\* ------------------------------------------------------ application steps
\* a click on the listen button
ToggleListening ==
    LET r == toggleListening(app, mgr, World, Rig) IN
    /\ Len(r.W.socks) <= MaxSockets
    /\ Len(r.R.procs) <= MaxProcessors
    /\ app' = r.A
    /\ mgr' = r.M
    /\ Commit(r.W)
    /\ CommitRig(r.R)
    /\ ret' = r.ret
    /\ closed' = closed \cup {s \in Sessions : live[s].ws # 0
                                               /\ r.W.live[s].ws = 0}
    /\ failed' = failed \ {s \in Sessions : r.W.live[s].ws \notin
                                               {0, live[s].ws}}
    /\ garbled' = 0
    /\ UNCHANGED <<nCalls, lastIn, dropped, signalVars, engine, band, page>>

\* the open event of socket k, then the toggleListening invocation that
\* awaited it
ListenOpen(k) ==
    LET r == resume(mgr, onopen([World EXCEPT !.socks[k].readyState = "OPEN",
                                              !.socks[k].opened = TRUE], k),
                    app.loops, k)
    IN /\ socks[k].readyState = "CONNECTING"
       /\ Len(r.W.socks) <= MaxSockets
       /\ app' = [app EXCEPT !.loops = r.loops]
       /\ mgr' = r.M
       /\ Commit(r.W)
       /\ ret' = NoRet
       /\ failed' = failed \ {s \in Sessions : r.W.live[s].ws \notin
                                                  {0, live[s].ws}}
       /\ garbled' = 0
       /\ UNCHANGED <<nCalls, lastIn, dropped, closed, captureVars,
                      signalVars, engine, band, page>>

\* the error and close events of socket k, then the toggleListening
\* invocation that awaited it
ListenError(k) ==
    LET r == resume(mgr, onclose(onerror(
                       [World EXCEPT !.socks[k].readyState = "CLOSED"], k), k),
                    app.loops, k)
    IN /\ socks[k].readyState # "CLOSED"
       /\ Len(r.W.socks) <= MaxSockets
       /\ app' = [app EXCEPT !.loops = r.loops]
       /\ mgr' = r.M
       /\ Commit(r.W)
       /\ ret' = NoRet
       /\ closed' = IF live[socks[k].owner].ws = k
                    THEN closed \cup {socks[k].owner} ELSE closed
       /\ failed' = (IF live[socks[k].owner].ws = k
                     THEN failed \cup {socks[k].owner} ELSE failed)
                    \ {s \in Sessions : r.W.live[s].ws \notin {0, live[s].ws}}
       /\ garbled' = 0
       /\ UNCHANGED <<nCalls, lastIn, dropped, captureVars, signalVars,
                      engine, band, page>>

\* the audio thread hands processor p its next buffer; the callback
\* toggleListening installed passes the frame to sendAudioToAll
ListenFrame(p) ==
    LET r == onaudioprocess(Rig, p, FALSE)
        dispatched == Len(r.R.frames) > Len(frames)
    IN /\ procs[p].source
       /\ ctxs[procs[p].ctx] = "running"
       /\ Delivered(procs, Len(procs)) < MaxBuffers
       /\ nCalls < MaxCalls
       /\ CommitRig(r.R)
       /\ Commit(IF dispatched THEN sendAudioToAll(World, mgr, nCalls + 1)
                 ELSE World)
       /\ nCalls' = IF dispatched THEN nCalls + 1 ELSE nCalls
       /\ ret' = NoRet
       /\ garbled' = 0
       /\ UNCHANGED <<mgr, lastIn, dropped, closed, failed, signalVars,
                      appVars>>

\* The listen button clicked while the sockets of earlier clicks open, fail
\* and close and the capture pipeline delivers frames.
ToggleNext ==
    \/ ToggleListening
    \/ \E p \in DOMAIN procs : ListenFrame(p)
    \/ \E k \in Sockets : ListenOpen(k)
    \/ \E k \in Sockets : ListenError(k)
    \/ \E k \in Sockets : ServerClosing(k)
    \/ \E k \in Sockets : OnClose(k)

SpecToggle == InitToggle /\ [][ToggleNext]_vars

\* ------------------------------------------------------------ engine steps
EnginePlay(empty) ==
    LET r == play(engine, app, empty) IN
    /\ engine.calls < MaxPlays
    /\ engine' = r.E
    /\ app' = r.A
    /\ ret' = r.ret
    /\ UNCHANGED <<sessionVars, captureVars, signalVars, band, page>>

EngineStop(throws) ==
    LET r == stop(engine, app, throws) IN
    /\ throws => engine.hush \in {"global", "repl"}
    /\ engine' = r.E
    /\ app' = r.A
    /\ ret' = NoRet
    /\ UNCHANGED <<sessionVars, captureVars, signalVars, band, page>>

\* the browser or the Strudel library suspends the audio context
Suspend ==
    /\ engine.audioContext = "running"
    /\ engine' = [engine EXCEPT !.audioContext = "suspended"]
    /\ ret' = NoRet
    /\ UNCHANGED <<sessionVars, captureVars, signalVars, app, band, page>>

\* audioCtx.resume() is fulfilled
Resumed ==
    LET r == resumed([engine EXCEPT !.audioContext = "running"], app, 1) IN
    /\ \E i \in DOMAIN engine.plays : engine.plays[i].at = "resume"
    /\ engine' = r.E
    /\ app' = r.A
    /\ ret' = NoRet
    /\ UNCHANGED <<sessionVars, captureVars, signalVars, band, page>>

\* the evaluate() promise of a suspended play() settles
Evaluated(i, ok) ==
    LET r == evaluated(engine, app, i, ok) IN
    /\ engine.plays[i].at = "evaluate"
    /\ engine' = r.E
    /\ app' = r.A
    /\ ret' = r.ret
    /\ UNCHANGED <<sessionVars, captureVars, signalVars, band, page>>

\* The transport: play() and stop() called while earlier play() calls are
\* still awaiting the audio context or the evaluation of their code.
EngineNext ==
    \/ \E empty \in BOOLEAN : EnginePlay(empty)
    \/ \E throws \in BOOLEAN : EngineStop(throws)
    \/ Suspend
    \/ Resumed
    \/ \E i \in DOMAIN engine.plays, ok \in BOOLEAN : Evaluated(i, ok)

SpecEngine == InitEngine /\ [][EngineNext]_vars

\* ------------------------------------------------------------- agent steps
\* the generate() calls made so far, all agents together
RECURSIVE ApiCalls(_)
ApiCalls(todo) ==
    IF todo = {} THEN 0
    ELSE LET a == CHOOSE x \in todo : TRUE
         IN band[a].apiCalls + ApiCalls(todo \ {a})

Generate(a, length) ==
    LET r == generate(band[a], length) IN
    /\ ApiCalls(Agents) < MaxGenerations
    /\ band' = [band EXCEPT ![a] = r.G]
    /\ ret' = r.ret
    /\ UNCHANGED <<sessionVars, captureVars, signalVars, app, engine, page>>

\* generateWithFallback settles for a suspended request of agent a
Answered(a, i, response, throws) ==
    LET r == answered(band[a], i, response, throws) IN
    /\ i \in DOMAIN band[a].requests
    /\ band' = [band EXCEPT ![a] = r.G]
    /\ ret' = r.ret
    /\ UNCHANGED <<sessionVars, captureVars, signalVars, app, engine, page>>

Undo(a) ==
    /\ band' = [band EXCEPT ![a] = undo(@)]
    /\ ret' = Ret("undo", "undefined", 0)
    /\ UNCHANGED <<sessionVars, captureVars, signalVars, app, engine, page>>

Redo(a) ==
    /\ band' = [band EXCEPT ![a] = redo(@)]
    /\ ret' = Ret("redo", "undefined", 0)
    /\ UNCHANGED <<sessionVars, captureVars, signalVars, app, engine, page>>

\* The agents asked for patterns, also while an earlier request is still
\* pending, and stepped through their histories.
AgentNext ==
    \/ \E a \in Agents, l \in PatternLengths : Generate(a, l)
    \/ \E a \in Agents, i \in 1..MaxGenerations, r \in Responses,
          t \in BOOLEAN : Answered(a, i, r, t)
    \/ \E a \in Agents : Undo(a)
    \/ \E a \in Agents : Redo(a)

SpecAgent == InitBand /\ [][AgentNext]_vars

\* --------------------------------------------------------------- solo steps
\* a click on the solo button of an agent
ToggleSolo(agentId) ==
    LET r == toggleSolo(app, band, engine, agentId) IN
    /\ (agentId \in Agents /\ app.isPlaying) => engine.calls < MaxPlays
    /\ app' = r.A
    /\ band' = r.B
    /\ engine' = r.E
    /\ ret' = Ret("toggleSolo", "undefined", 0)
    /\ UNCHANGED <<sessionVars, captureVars, signalVars, page>>

\* App.play(): the play button, or the replay after a mood or a generation
AppPlay ==
    LET r == appPlay(engine, app) IN
    /\ engine.calls < MaxPlays
    /\ engine' = r.E
    /\ app' = r.A
    /\ ret' = NoRet
    /\ UNCHANGED <<sessionVars, captureVars, signalVars, band, page>>

\* The solo buttons clicked while the transport plays or is stopped.
SoloNext ==
    \/ \E a \in AgentIds : ToggleSolo(a)
    \/ AppPlay
    \/ \E throws \in BOOLEAN : EngineStop(throws)
    \/ Resumed
    \/ \E i \in DOMAIN engine.plays, ok \in BOOLEAN : Evaluated(i, ok)

SpecSolo == InitSolo /\ [][SoloNext]_vars

\* ---------------------------------------------------------- detection steps
\* a script of the page defines one of the globals init() looks for (or
\* sets window.strudelReady)
Define(name) ==
    /\ page # <<>>
    /\ ~page.window[name]
    /\ page' = [page EXCEPT !.window[name] = TRUE]
    /\ UNCHANGED <<sessionVars, captureVars, signalVars, app, engine, band,
                   ret>>

\* the timer fires and checkStrudel runs
CheckStrudel ==
    /\ page # <<>>
    /\ page.timer
    /\ LET r == checkStrudel(engine, page)
       IN /\ engine' = r.E
          /\ page' = r.P
    /\ UNCHANGED <<sessionVars, captureVars, signalVars, app, band, ret>>

DetectNext ==
    \/ \E name \in Globals : Define(name)
    \/ CheckStrudel

SpecDetect == InitDetect /\ [][DetectNext]_vars

\* a timer that is set fires
FairDetect == SpecDetect /\ WF_vars(CheckStrudel)

\* ------------------------------------------------------------------ claims
connectedNow(s) == connected(World, s)
HasLiveSocket(s) ==
    /\ live[s].ws # 0
    /\ socks[live[s].ws].readyState \in {"CONNECTING", "OPEN"}
OnWire(msg) == \E k \in Sockets : \E i \in DOMAIN socks[k].wire :
                  socks[k].wire[i] = msg
Queued(msg) == \E s \in Sessions : \E i \in DOMAIN live[s].messageQueue :
                  live[s].messageQueue[i] = msg

\* C1: a sendText call made while the session is not Open appends the text to
\* the outbound queue (from which it would be flushed, once, in order, when the
\* socket opens).
C1_TextQueuedWhileNotOpen ==
    [][\A s \in DOMAIN live :
          (CallSendText(s) /\ ~live[s].isConnected) =>
             Len(live'[s].messageQueue) = Len(live[s].messageQueue) + 1]_vars

\* C2: an audio frame handed to sendAudio while isConnected is false (before
\* connect() has resolved) is on no socket and in no queue, then and ever
\* after.
C2_AudioBeforeOpenDropped ==
    \A d \in dropped : ~OnWire(AudioMsg(d[2])) /\ ~Queued(AudioMsg(d[2]))

\* a frame was dropped while the socket was still connecting, the socket has
\* opened since and carries the handshake only
C2_Witness ==
    \E d \in dropped :
       /\ connectedNow(d[1])
       /\ socks[live[d[1]].ws].wire = <<SetupMsg("default")>>

\* C5 as stated: once disconnect() has been called or the session's socket has
\* closed, the session is never Open again.
C5_ClosedIsTerminal == \A s \in closed : ~connectedNow(s)

\* C5 as amended: a closed session has no live socket and gets one again only
\* through a connect() call on it; no other operation or event creates a
\* socket.
C5_ReopensOnlyByConnect ==
    [][/\ \A s \in DOMAIN live :
             /\ (s \in closed' /\ s \notin closed) => ~HasLiveSocket(s)'
             /\ HasLiveSocket(s)' => ~CallDisconnect(s)
             /\ (s \in closed /\ ~HasLiveSocket(s) /\ HasLiveSocket(s)')
                   => CallConnect(s, "null")
       /\ Len(socks') # Len(socks) => \E s \in DOMAIN live :
                                         CallConnect(s, "null")]_vars

\* a session that was disconnected is Open again on a second socket
C5_Witness ==
    \E s \in closed : connectedNow(s) /\ live[s].ws = 2
                      /\ socks[1].closeCalls = 1

\* C6: every socket that has opened carries the setup handshake exactly once,
\* as the first message transmitted on it.
C6_HandshakeFirstOnEachSocket ==
    \A k \in Sockets :
       socks[k].opened =>
          /\ Len(socks[k].wire) >= 1
          /\ socks[k].wire[1].kind = "setup"
          /\ \A i \in 2..Len(socks[k].wire) : socks[k].wire[i].kind # "setup"

C8_TransmitOnlyWhileConnected ==
    [][\A k \in DOMAIN socks :
          Len(socks'[k].wire) > Len(socks[k].wire) =>
             /\ live'[socks[k].owner].ws = k
             /\ connectedNow(socks[k].owner)'
             /\ live'[socks[k].owner].isConnected
             /\ socks'[k].readyState = "OPEN"]_vars

\* the handshake, an audio frame and a text were transmitted on one socket
C8_Witness ==
    \E k \in Sockets :
       /\ Len(socks[k].wire) = 3
       /\ \E i \in 2..3 : socks[k].wire[i].kind = "realtimeInput"
       /\ \E i \in 2..3 : socks[k].wire[i].kind = "clientContent"

\* C9: the outbound queue of a session never holds an audio message.
C9_NoAudioQueued ==
    \A s \in Sessions : \A i \in DOMAIN live[s].messageQueue :
       live[s].messageQueue[i].kind # "realtimeInput"

\* the dispatch in progress: its session, message and throwing part
InSession == socks[lastIn[1].sock].owner
InMessage == lastIn[1].m
InThrowAt == lastIn[1].throwAt

\* C3: in shared-session mode every text part of an inbound model turn that is
\* delivered goes to the callback of the listener most recently tagged as the
\* session's current speaker, with that listener's id, and to no other
\* callback; a turn with a text part is delivered.
C3_SharedDeliversToCurrentSpeaker ==
    (mgr.useSharedSession /\ lastIn # <<>>) =>
       LET tag == live[InSession].currentAgent IN
       /\ \A i \in DOMAIN delivered :
             /\ delivered[i].sess = InSession
             /\ delivered[i].agent = tag
             /\ delivered[i].cb = CbOf(tag)
       /\ (\E i \in 1..NumParts(InMessage) : Truthy(InMessage.parts[i]))
             => Len(delivered) >= 1

\* the connection was opened by the call for drums, bass was tagged after it
\* and receives the text
C3_Witness ==
    /\ mgr.useSharedSession
    /\ lastIn # <<>>
    /\ socks[lastIn[1].sock].agentConfig = "drums"
    /\ Len(delivered) >= 1
    /\ delivered[1].agent = "bass"
    /\ delivered[1].cb = "cbBass"

\* C4: right after stopAll() no session the manager ever created is connected.
C4_NoSessionConnectedAfterStopAll ==
    [][StopAll => \A s \in DOMAIN live' : ~connectedNow(s)']_vars

\* C10 as stated: the callback is invoked exactly once per text part of the
\* model turn, in part order; other messages invoke no callback.
C10_OncePerTextPart ==
    lastIn # <<>> =>
       /\ Len(delivered) =
             Cardinality({i \in 1..NumParts(InMessage) :
                             "text" \in DOMAIN InMessage.parts[i]})
       /\ \A j \in 2..Len(delivered) :
             delivered[j - 1].part < delivered[j].part

\* C10 as amended: the callback is invoked exactly once per part carrying a
\* non-empty text, in part order, up to and including the first invocation
\* that throws; parts with an empty text or without text, turns without
\* parts, setup-complete and unparseable messages invoke no callback.
C10_OncePerNonEmptyTextPart ==
    lastIn # <<>> =>
       LET idx == {i \in 1..NumParts(InMessage) :
                      /\ Truthy(InMessage.parts[i])
                      /\ InThrowAt = 0 \/ i <= InThrowAt}
       IN /\ Len(delivered) = Cardinality(idx)
          /\ \A j \in DOMAIN delivered :
                /\ delivered[j].part \in idx
                /\ delivered[j].content = InMessage.parts[delivered[j].part].text
                /\ delivered[j].sess = InSession
          /\ \A j \in 2..Len(delivered) :
                delivered[j - 1].part < delivered[j].part

\* a turn of two text parts, both delivered, in order
C10_Witness ==
    /\ lastIn # <<>>
    /\ NumParts(InMessage) = 2
    /\ InThrowAt = 0
    /\ Len(delivered) = 2
    /\ delivered[1].part = 1
    /\ delivered[2].part = 2

\* C11: the dispatch of a payload that cannot be parsed raises nothing out of
\* handleMessage, leaves the sessions, the sockets and the manager as they
\* were and invokes no callback; the message dispatched next on the same
\* socket is delivered as any other, every non-empty text part once.
C11_UnparseableIsSkipped ==
    [][(lastIn = <<>> /\ lastIn' # <<>>) =>
          LET d == lastIn'[1] IN
          /\ d.m.kind = "malformed" =>
                /\ d.raised = "none"
                /\ delivered' = <<>>
                /\ UNCHANGED <<mgr, live, socks, errs>>
          /\ (d.sock = garbled /\ d.throwAt = 0) =>
                /\ d.raised = "none"
                /\ Len(delivered') =
                      Cardinality({i \in 1..NumParts(d.m) :
                                      Truthy(d.m.parts[i])})]_vars

\* an unparseable payload was dispatched on a session that has a callback
\* registered, and the callback was not invoked
C11_Witness ==
    /\ lastIn # <<>>
    /\ InMessage.kind = "malformed"
    /\ garbled = lastIn[1].sock
    /\ live[InSession].onMessage.set
    /\ delivered = <<>>

\* C12: disconnect() leaves the session without socket handle and not
\* connected, whatever state its socket was in (connecting, open, closing);
\* it calls close() on the socket it held, which leaves its CONNECTING or OPEN
\* state, and no socket ever gets a second close(); on a session that holds
\* no socket and is not connected (as after a first disconnect()) it changes
\* nothing and returns normally.
C12_DisconnectIdempotent ==
    [][\A s \in DOMAIN live :
          (nCalls' = nCalls /\ Len(socks') = Len(socks) /\ CallDisconnect(s)) =>
             /\ live'[s].ws = 0
             /\ ~live'[s].isConnected
             /\ ~connectedNow(s)'
             /\ ret' = NoRet
             /\ live[s].ws # 0 =>
                   /\ socks'[live[s].ws].closeCalls = 1
                   /\ socks'[live[s].ws].readyState \in {"CLOSING", "CLOSED"}
             /\ \A k \in DOMAIN socks :
                   k # live[s].ws => socks'[k] = socks[k]
             /\ (live[s].ws = 0 /\ ~live[s].isConnected) =>
                   UNCHANGED <<live, socks, errs>>]_vars

\* an open session was disconnected: its socket got one close() and is
\* closing, the session holds no socket
C12_Witness ==
    \E s \in closed :
       /\ live[s].ws = 0
       /\ ~live[s].isConnected
       /\ Len(socks) = 1
       /\ socks[1].opened
       /\ socks[1].closeCalls = 1
       /\ socks[1].readyState = "CLOSING"

\* C13: startListening never raises and its result never rejects: what it
\* returns is true, false, or the outcome of the connect() it awaits, which
\* the try block turns into true or false.
C13_StartListeningNeverThrows ==
    ret.op = "startListening" => ret.value \in {"true", "false", "awaits"}

\* C14: without API key init() and startListening return false and leave the
\* manager, the sessions and the sockets as they were; connect() on a session
\* without API key returns false, creates no socket and leaves the session as
\* constructed (Idle); none of them raises.
C14_NoKeyReturnsFalse ==
    [][/\ ~mgr.apiKey =>
             /\ MgrInit =>
                   ret' = Ret("init", "false", 0)
                   /\ UNCHANGED <<mgr, live, socks>>
             /\ \A a \in AgentIds :
                   StartListening(a, CbOf(a)) =>
                      ret' = Ret("startListening", "false", 0)
                      /\ UNCHANGED <<mgr, live, socks>>
       /\ \A s \in DOMAIN live :
             (~live[s].apiKey /\ CallConnect(s, "null")) =>
                /\ ret' = Ret("connect", "false", 0)
                /\ UNCHANGED <<live, socks>>
                /\ live'[s] = GeminiLive(FALSE)
                /\ \A k \in DOMAIN socks' : socks'[k].owner # s]_vars

\* connect() has just returned false on the session without API key
C14_Witness ==
    /\ ~mgr.apiKey
    /\ ret = Ret("connect", "false", 0)
    /\ live = <<GeminiLive(FALSE)>>
    /\ socks = <<>>

\* C15: startListening with an id that CONFIG.AGENTS does not know returns
\* false and leaves the manager, every session (current-speaker tag,
\* registered callback, connection state) and every socket as they were.
C15_UnknownListenerUnchanged ==
    [][\A a \in AgentIds \ Agents :
          StartListening(a, CbOf(a)) =>
             /\ ret' = Ret("startListening", "false", 0)
             /\ UNCHANGED <<mgr, live, socks, delivered, errs>>]_vars

\* the call with the unknown id has just returned false while drums is the
\* tagged listener of a connected session
C15_Witness ==
    /\ mgr.apiKey
    /\ ret = Ret("startListening", "false", 0)
    /\ \E s \in Sessions :
          /\ connectedNow(s)
          /\ live[s].currentAgent = "drums"
          /\ live[s].onMessage.agentId = "drums"

\* C16: in shared-session mode the manager has created exactly one streaming
\* session once init() has run, every socket opened by startListening belongs
\* to that session, and the per-listener map is empty.
C16_SharedModeOneSession ==
    mgr.useSharedSession =>
       /\ mgr.sharedSession # 0 => Len(live) = 1
       /\ \A k \in Sockets : socks[k].owner = mgr.sharedSession
       /\ \A a \in Agents : mgr.sessions[a] = 0

\* C17: in per-listener mode the sessions the manager holds for two listeners
\* are distinct and each is tagged with its own listener; every text part
\* dispatched on a session is delivered on that session only, to the callback
\* of the listener the session was created for and with that listener's id,
\* and a turn with a text part is delivered.
C17_PerListenerAttribution ==
    ~mgr.useSharedSession =>
       /\ \A a \in Agents : \A b \in Agents \ {a} :
             mgr.sessions[a] # 0 => mgr.sessions[a] # mgr.sessions[b]
       /\ \A a \in Agents :
             mgr.sessions[a] # 0 => live[mgr.sessions[a]].currentAgent = a
       /\ lastIn # <<>> =>
             LET for == socks[lastIn[1].sock].agentConfig IN
             /\ \A i \in DOMAIN delivered :
                   /\ delivered[i].sess = InSession
                   /\ delivered[i].agent = for
                   /\ delivered[i].cb = CbOf(for)
             /\ (\E i \in 1..NumParts(InMessage) :
                    Truthy(InMessage.parts[i])) => Len(delivered) >= 1

\* drums and bass each have a session; a text received on the session of bass
\* is delivered to the callback of bass
C17_Witness ==
    /\ ~mgr.useSharedSession
    /\ mgr.sessions["drums"] # 0
    /\ mgr.sessions["bass"] # 0
    /\ lastIn # <<>>
    /\ InSession = mgr.sessions["bass"]
    /\ Len(delivered) >= 1
    /\ delivered[1].cb = "cbBass"

\* the sessions the manager holds in its mode
Topology ==
    IF mgr.useSharedSession THEN {mgr.sharedSession} \ {0}
    ELSE {mgr.sessions[a] : a \in Agents} \ {0}

\* C18: sendAudioToAll appends the frame once to the socket of every session
\* of the manager that is connected, touches no other socket and queues
\* nothing; when no session is connected it changes nothing.
C18_AudioToEveryOpenSession ==
    [][SendAudioToAll =>
          LET open == {s \in Topology : connectedNow(s)} IN
          /\ \A k \in DOMAIN socks :
                socks'[k] =
                   IF \E s \in open : live[s].ws = k
                   THEN [socks[k] EXCEPT
                           !.wire = Append(@, AudioMsg(nCalls + 1))]
                   ELSE socks[k]
          /\ UNCHANGED <<mgr, live, delivered, errs>>
          /\ open = {} => UNCHANGED socks]_vars

\* per-listener mode: the first frame went out on the sockets of both
\* listeners, each right after its handshake
C18_Witness ==
    /\ ~mgr.useSharedSession
    /\ Len(socks) = 2
    /\ socks[1].owner # socks[2].owner
    /\ \A k \in Sockets :
          /\ Len(socks[k].wire) = 2
          /\ socks[k].wire[2] = AudioMsg(1)

\* the session sendToAgent picks for listener a, 0 when it picks none
Serving(a) ==
    IF mgr.useSharedSession THEN mgr.sharedSession
    ELSE IF a \in Agents THEN mgr.sessions[a] ELSE 0

C20_StartWhileCapturingIsNoOp ==
    [][/\ \A cb \in FrameCallbacks :
             (StartCapture(cb) /\ cap.isCapturing) =>
                /\ UNCHANGED <<cap, ctxs, procs, frames>>
                /\ ret' = Ret("startCapture", "undefined", 0)
       /\ Cardinality({p \in DOMAIN procs' : procs'[p].out}) <= 1
       /\ \A p \in DOMAIN procs : \A throws \in BOOLEAN :
             OnAudioProcess(p, throws) =>
                Len(frames') <= Len(frames) + 1]_vars

\* startCapture has just returned on a pipeline that had already dispatched
\* a frame of its only processor to the first callback
C20_Witness ==
    /\ ret = Ret("startCapture", "undefined", 0)
    /\ cap.isCapturing
    /\ cap.onAudioData = "onFrameA"
    /\ Len(procs) = 1
    /\ procs[1].out
    /\ frames = <<[proc |-> 1, buf |-> 1, cb |-> "onFrameA"]>>

\* C21: stopCapture leaves the pipeline not capturing and without processor,
\* and changes nothing when the pipeline is already so; while the pipeline is
\* not capturing (from stopCapture until the next startCapture) a buffer
\* event, also one of a processor already disconnected, invokes no callback.
C21_NoFrameAfterStop ==
    [][/\ StopCapture =>
             /\ ~cap'.isCapturing
             /\ cap'.scriptProcessor = 0
             /\ frames' = frames
             /\ (~cap.isCapturing /\ cap.scriptProcessor = 0) =>
                   UNCHANGED captureVars
       /\ \A p \in DOMAIN procs :
             (~cap.isCapturing /\ OnAudioProcess(p, FALSE)) =>
                frames' = frames /\ ret' = NoRet]_vars

\* capture was stopped after one frame; the buffer the disconnected
\* processor delivered afterwards was not dispatched
C21_Witness ==
    /\ ~cap.isCapturing
    /\ cap.scriptProcessor = 0
    /\ Len(procs) = 1
    /\ ~procs[1].out
    /\ procs[1].fired = 2
    /\ frames = <<[proc |-> 1, buf |-> 1, cb |-> "onFrameA"]>>

\* C22: a callback that raises while it handles a frame raises nothing out
\* of the per-buffer handler.
C22_CallbackThrowIsolated ==
    ret # Ret("onaudioprocess", "callback", 0)

\* C23: while capturing, a buffer delivered to a processor appends exactly one
\* frame, the frame of that buffer of that processor, handed to the callback
\* in use; the frames of a processor are its buffers in delivery order, none
\* twice and none held back.
C23_OneFramePerBuffer ==
    [][\A p \in DOMAIN procs : \A throws \in BOOLEAN :
          (cap.isCapturing /\ OnAudioProcess(p, throws)) =>
             /\ frames' = Append(frames,
                    [proc |-> p, buf |-> procs[p].fired + 1,
                     cb |-> cap.onAudioData])
             /\ \A i, j \in DOMAIN frames' :
                   (i < j /\ frames'[i].proc = frames'[j].proc) =>
                      frames'[i].buf < frames'[j].buf]_vars

\* two buffers of one processor were dispatched, in order, one frame each
C23_Witness ==
    /\ cap.isCapturing
    /\ Len(procs) = 1
    /\ procs[1].fired = 2
    /\ frames = <<[proc |-> 1, buf |-> 1, cb |-> "onFrameA"],
                  [proc |-> 1, buf |-> 2, cb |-> "onFrameA"]>>

\* C24: while init() has run and has not succeeded, startCapture raises
\* nothing and does not leave the pipeline marked as capturing.
C24_FailedInitLeavesInert ==
    (cap.audioContext # 0 /\ cap.mediaStreamDestination = 0) =>
        /\ ~cap.isCapturing
        /\ ret # Ret("startCapture", "TypeError", 0)

\* C25: the resampled frame has round(L * f_out / f_in) samples, L the
\* length of the input: the integer nearest to the quotient, the upper one
\* when the quotient lies halfway between two integers.
C25_LengthIsRounded ==
    dsp.stage = "resampled" =>
        LET twice == 2 * Len(dsp.resampled) * dsp.fromSampleRate
                     - 2 * Len(dsp.inputBuffer) * dsp.toSampleRate
        IN -dsp.fromSampleRate < twice /\ twice <= dsp.fromSampleRate

\* C26: with equal rates every output sample is read at its own index with
\* weight zero, so the output is the input sample for sample.
C26_EqualRatesIdentity ==
    (dsp.stage = "resampled" /\ dsp.fromSampleRate = dsp.toSampleRate) =>
        /\ Len(dsp.resampled) = Len(dsp.inputBuffer)
        /\ \A i \in DOMAIN dsp.resampled :
              /\ dsp.resampled[i].floor = i - 1
              /\ dsp.resampled[i].t = DoubleZero
              /\ dsp.resampled[i].a = dsp.inputBuffer[i]

\* a frame of two different samples resampled from 48000 to 48000
C26_Witness ==
    /\ dsp.stage = "resampled"
    /\ dsp.fromSampleRate = 48000
    /\ dsp.toSampleRate = 48000
    /\ dsp.inputBuffer = <<[num |-> -3, den |-> 2], [num |-> 1, den |-> 2]>>
    /\ Len(dsp.resampled) = 2

\* C27: every quantized sample lies in -32768 .. 32767; a sample of 1 or
\* more gives 32767, a sample of -1 or less gives -32768, 0 gives 0, and a
\* sample in between is its product with 32768 (negative) or 32767
\* (non-negative), the fraction dropped.
C27_QuantizerClampsAndScales ==
    dsp.stage = "quantized" =>
        /\ Len(dsp.pcm16) = Len(dsp.inputBuffer)
        /\ \A i \in DOMAIN dsp.pcm16 :
              LET x == dsp.inputBuffer[i]
                  v == dsp.pcm16[i]
              IN /\ v \in -32768..32767
                 /\ x.num >= x.den => v = 32767
                 /\ x.num <= -x.den => v = -32768
                 /\ x.num = 0 => v = 0
                 /\ (0 <= x.num /\ x.num < x.den) =>
                       v * x.den <= x.num * 32767
                       /\ x.num * 32767 < (v + 1) * x.den
                 /\ (-x.den < x.num /\ x.num < 0) =>
                       (v - 1) * x.den < x.num * 32768
                       /\ x.num * 32768 <= v * x.den

\* a sample above 1 and a negative sample inside the range have been
\* quantized
C27_Witness ==
    /\ dsp.stage = "quantized"
    /\ dsp.inputBuffer = <<[num |-> 3, den |-> 2], [num |-> -1, den |-> 2]>>
    /\ dsp.pcm16 = <<32767, -16384>>

\* the value of a base64 character
Base64Value(c) ==
    IF c = "=" THEN 0
    ELSE (CHOOSE i \in DOMAIN Base64Alphabet : Base64Alphabet[i] = c) - 1

\* groups of four characters of the alphabet, of which only the last one or
\* two of the text may be "="
Base64WellFormed(s) ==
    /\ Len(s) % 4 = 0
    /\ \A k \in DOMAIN s :
          \/ \E i \in DOMAIN Base64Alphabet : Base64Alphabet[i] = s[k]
          \/ /\ s[k] = "="
             /\ k >= Len(s) - 1
             /\ \A j \in (k + 1)..Len(s) : s[j] = "="

\* standard base64 decoding of a well-formed text
Base64Decode(s) ==
    LET n == Len(s)
        pad == Cardinality({k \in DOMAIN s : s[k] = "="})
        V(k) == Base64Value(s[k])
    IN [j \in 1..(3 * (n \div 4) - pad) |->
           LET g == 4 * ((j - 1) \div 3)
               p == (j - 1) % 3
           IN IF p = 0 THEN V(g + 1) * 4 + V(g + 2) \div 16
              ELSE IF p = 1 THEN (V(g + 2) % 16) * 16 + V(g + 3) \div 4
              ELSE (V(g + 3) % 4) * 64 + V(g + 4)]

\* C28: the encoded text is well-formed base64 without any other character,
\* and decoding it gives back the bytes of the quantized frame.
C28_Base64RoundTrip ==
    dsp.stage = "encoded" =>
        /\ Base64WellFormed(dsp.base64Audio)
        /\ Base64Decode(dsp.base64Audio) = Int16Buffer(dsp.pcm16)

\* one sample, two bytes, has been encoded with one padding character
C28_Witness ==
    /\ dsp.stage = "encoded"
    /\ dsp.pcm16 = <<32767>>
    /\ dsp.base64Audio = <<"/", "3", "8", "=">>

\* a quotient in [0, 1]
InUnit(q) == 0 <= q.num /\ q.num <= q.den

\* C29: without analyser no features are available; with it, the overall
\* energy and the energy of each band lie in [0, 1], isLoud holds exactly
\* when the mean amplitude is above 150, isQuiet exactly when it is below 50,
\* and never both.
C29_FeaturesInUnitRange ==
    feat.done =>
        IF ~feat.analyserNode THEN feat.features = NoFeatures
        ELSE LET f == feat.features
                 total == BinSum(feat.frequencyData, 0,
                                 Len(feat.frequencyData))
             IN /\ f.available
                /\ InUnit(f.energy)
                /\ InUnit(f.lowEnergy)
                /\ InUnit(f.midEnergy)
                /\ InUnit(f.highEnergy)
                /\ f.isLoud <=> total > 150 * Len(feat.frequencyData)
                /\ f.isQuiet <=> total < 50 * Len(feat.frequencyData)
                /\ ~(f.isLoud /\ f.isQuiet)

\* C30: in shared-session mode, with every call awaited, a startListening
\* call made while the shared session is connected returns true and leaves
\* the sockets and what was sent on them as they are; a call that opens a
\* socket gives it the persona of its listener; and a socket carries at most
\* one handshake, sent when it opened, with that persona.
C30_OneHandshakePerConnection ==
    [][mgr.useSharedSession =>
          /\ \A a \in Agents :
                StartListening(a, CbOf(a)) =>
                   /\ (mgr.sharedSession # 0
                       /\ live[mgr.sharedSession].isConnected) =>
                         /\ socks' = socks
                         /\ ret' = Ret("startListening", "true", 0)
                   /\ ret'.value = "awaits" =>
                         socks'[ret'.sock].agentConfig = a
          /\ \A k \in DOMAIN socks' :
                socks'[k].wire = IF socks'[k].opened
                                 THEN <<SetupMsg(socks'[k].agentConfig)>>
                                 ELSE <<>>]_vars

\* the call for drums opened the connection, the awaited call for bass that
\* followed returned true, and the one socket carries the handshake of drums
C30_Witness ==
    /\ mgr.useSharedSession
    /\ Len(socks) = 1
    /\ socks[1].readyState = "OPEN"
    /\ socks[1].wire = <<SetupMsg("drums")>>
    /\ live[mgr.sharedSession].currentAgent = "bass"
    /\ ret = Ret("startListening", "true", 0)

\* C31: every socket a session has created is either the one the session
\* currently holds or has been closed (close() was called on it or it has
\* closed), so that a session never has two sockets alive.
C31_AtMostOneLiveSocket ==
    \A k \in Sockets :
       \/ live[socks[k].owner].ws = k
       \/ socks[k].readyState \in {"CLOSING", "CLOSED"}

\* C32: after disconnect() has released a socket and connect() has given the
\* session a new one, an open, error or close event of the released socket
\* leaves the session as it is: isConnected keeps its value, nothing is
\* transmitted on any socket and no onMessage dispatch is made.
C32_SupersededSocketIsInert ==
    [][\A k \in DOMAIN socks :
          (/\ live[socks[k].owner].ws \notin {0, k}
           /\ socks[k].closeCalls > 0
           /\ C31_AtMostOneLiveSocket
           /\ socks'[k].readyState # socks[k].readyState
           /\ (OnOpen(k) \/ OnError(k) \/ OnClose(k)))
          => /\ live'[socks[k].owner].isConnected
                  = live[socks[k].owner].isConnected
             /\ \A j \in DOMAIN socks : socks'[j].wire = socks[j].wire
             /\ delivered' = delivered]_vars

\* C33: when the isListening flag is false and nothing is pending (no
\* toggleListening invocation is suspended and no connect() promise is
\* unsettled), no session is connected and audio capture is stopped.
C33_ListeningOffMeansDisconnected ==
    (/\ app.geminiManager
     /\ ~app.isListening
     /\ app.loops = {}
     /\ Settled)
    => /\ \A s \in Sessions : ~live[s].isConnected
       /\ ~cap.isCapturing

C35_ReadsWithinInput ==
    (dsp.stage = "resampled" /\ dsp.inputBuffer # <<>>) =>
        \A i \in DOMAIN dsp.resampled :
           LET L == Len(dsp.inputBuffer)
               r == dsp.resampled[i]
           IN /\ r.floor \in 0..(L - 1)
              /\ r.ceil \in 0..(L - 1)
              /\ r.ceil = Min(r.floor + 1, L - 1)
              /\ r.a = dsp.inputBuffer[r.floor + 1]
              /\ r.b = dsp.inputBuffer[r.ceil + 1]
              /\ r.a # NotANumber
              /\ r.b # NotANumber

\* two samples brought from 16000 to 48000: the last of the six output
\* samples lies between the second input sample and the end, and its upper
\* index is clamped to the last valid one
C35_Witness ==
    /\ dsp.stage = "resampled"
    /\ dsp.fromSampleRate = 16000
    /\ dsp.toSampleRate = 48000
    /\ Len(dsp.inputBuffer) = 2
    /\ Len(dsp.resampled) = 6
    /\ dsp.resampled[6].floor = 1
    /\ dsp.resampled[6].ceil = 1
    /\ dsp.resampled[6].t # DoubleZero

\* C36: once stop() has completed and until play() is called again, the
\* engine is not playing and the application, which follows the onPlay and
\* onStop callbacks, does not show it as playing: a play() that was awaiting
\* when stop() was called does not set isPlaying or fire onPlay afterwards.
C36_StopWinsOverPendingPlay ==
    engine.stopped => ~engine.isPlaying /\ ~app.isPlaying

\* C37: per agent at most one generation is in flight.  A generate() call
\* made while isGenerating is set returns null and leaves the agent as it
\* is, its code, history and status included, and calls no API; an agent has
\* a request pending exactly while isGenerating is set, and never more than
\* one; and when a request is answered, by code, by an empty result or by an
\* exception, isGenerating is false again.
C37_OneGenerationInFlight ==
    [][\A a \in Agents :
          /\ (band[a].isGenerating
              /\ \E l \in PatternLengths : Generate(a, l))
             => /\ band' = band
                /\ ret' = Ret("generate", "null", 0)
          /\ Len(band'[a].requests) < Len(band[a].requests)
             => ~band'[a].isGenerating
          /\ Len(band'[a].requests) <= 1
          /\ band'[a].isGenerating <=> Len(band'[a].requests) = 1]_vars

\* a second generate() for drums was refused while the first is pending
C37_Witness ==
    /\ ret = Ret("generate", "null", 0)
    /\ band["drums"].isGenerating
    /\ band["drums"].requests = <<4>>
    /\ band["drums"].apiCalls = 1
    /\ band["drums"].status = "generating"

\* the history index is -1 for an empty history and an index into it
\* otherwise
ValidIndex(G) ==
    IF G.history = <<>> THEN G.historyIndex = -1
    ELSE G.historyIndex \in 0..(Len(G.history) - 1)

\* redo() on G gives the code and the index of H
Restores(G, H) ==
    /\ redo(G).code = H.code
    /\ redo(G).historyIndex = H.historyIndex

\* C38 as stated: after any sequence of generate, undo and redo the history
\* index is valid, undo at index 0 and redo at the last index change
\* nothing, and a redo made right after any undo restores the code and the
\* index the agent had before the undo.
C38_UndoThenRedoRestores ==
    [][\A a \in Agents :
          /\ ValidIndex(band'[a])
          /\ (band[a].historyIndex <= 0 /\ Undo(a)) => band' = band
          /\ (band[a].historyIndex = Len(band[a].history) - 1 /\ Redo(a))
             => band' = band
          /\ Undo(a) => Restores(band'[a], band[a])]_vars

\* C38 as amended: the same, with the round trip claimed for an undo that
\* moved, that is one made at an index above 0.
C38_MovingUndoThenRedoRestores ==
    [][\A a \in Agents :
          /\ ValidIndex(band'[a])
          /\ (band[a].historyIndex <= 0 /\ Undo(a)) => band' = band
          /\ (band[a].historyIndex = Len(band[a].history) - 1 /\ Redo(a))
             => band' = band
          /\ (band[a].historyIndex > 0 /\ Undo(a))
             => Restores(band'[a], band[a])]_vars

\* drums has two patterns and an undo has just taken it back to the first
C38_Witness ==
    /\ ret = Ret("undo", "undefined", 0)
    /\ band["drums"].history = <<"s(\"bd\")", "note(\"c2\")">>
    /\ band["drums"].historyIndex = 0
    /\ band["drums"].code = "s(\"bd\")"

\* C39: after any sequence of toggleSolo calls at most one agent is solo;
\* while an agent is solo every other agent is muted; and when no agent is
\* solo, every agent is unmuted.
C39_AtMostOneSolo ==
    /\ Cardinality({a \in Agents : band[a].isSolo}) <= 1
    /\ \A a \in Agents :
          band[a].isSolo => \A b \in Agents \ {a} : band[b].isMuted
    /\ (\A a \in Agents : ~band[a].isSolo)
       => \A a \in Agents : ~band[a].isMuted

\* the solo went from drums to bass: drums is muted and no longer solo
C39_Witness ==
    /\ ret = Ret("toggleSolo", "undefined", 0)
    /\ band["bass"].isSolo
    /\ ~band["drums"].isSolo
    /\ band["drums"].isMuted
    /\ band["bass"].isMuted

\* C40: StrudelEngine.init() always eventually resolves, whatever Strudel
\* globals are or are not present, window.strudelRepl defined while
\* window.strudelReady never becomes true included.
C40_InitResolves == <>(page.resolved)

====
